---------------------------- MODULE Spec2Model ----------------------------
(***************************************************************************)
(* MITRE ATT&CK backend: the versioned document store (mitre_documents,    *)
(* mitre_entities, current_schema), the Neo4j projection of the bundle     *)
(* that was written last, and the request handlers that read and write     *)
(* them.  Every await of a handler is one step of the model, so that a     *)
(* handler can fail between two steps and leave the stores as the code     *)
(* leaves them.                                                            *)
(***************************************************************************)
EXTENDS Naturals, Integers, Sequences, FiniteSets, Bags, TLC

(***************************************************************************)
(* Bounds of the model.                                                    *)
(***************************************************************************)
NumVersions == 2
MaxObjs == 3
MaxTextHits == 2
MaxVectorHits == 3
MaxTopK == 3
\* the clock stops at MaxClock; a second has MicrosPerSecond microseconds
MaxClock == 3
MicrosPerSecond == 2
\* the relationships with a text that a bundle of SpecOverfetch has at most
MaxRels == 51

(***************************************************************************)
(* Values.  Python's None is the string None; every field of an object is  *)
(* a string, as in MitreObject.                                            *)
(***************************************************************************)
None == "<None>"

AllVersions == <<"1.0", "2.0", "3.0", "4.0">>
Versions == {AllVersions[i] : i \in 1..NumVersions}

CURRENT_DOC_ID == "current"

Procs == {1, 2}

\* MitreObject: the fields of the schema that the stores and the graph read.
MitreObject(id, type, name, description, rt, src, tgt) ==
    [id |-> id, type |-> type, name |-> name, description |-> description,
     relationship_type |-> rt, source_ref |-> src, target_ref |-> tgt]

ObjectFields ==
    {"id", "type", "name", "description", "relationship_type", "source_ref", "target_ref"}

\* MitreBundle
MitreBundle(id, spec_version, objects) ==
    [type |-> "bundle", id |-> id, spec_version |-> spec_version, objects |-> objects]

(***************************************************************************)
(* The objects of the model.                                               *)
(***************************************************************************)
TechA   == MitreObject("a", "attack-pattern", "T1", None, None, None, None)
TechA2  == MitreObject("a", "attack-pattern", "T1 renamed", "d", None, None, None)
GroupB  == MitreObject("b", "intrusion-set", "G1", None, None, None, None)
Blank   == MitreObject("c", "", " ", None, None, None, None)
RelBA   == MitreObject("r", "relationship", None, None, "uses", "b", "a")
RelAB   == MitreObject("q", "relationship", None, None, "subtechnique-of", "a", "b")
RelDang == MitreObject("d", "relationship", None, "dangling", "uses", "b", "x")
RelToRel == MitreObject("e", "relationship", None, None, "uses", "a", "r")
RelNoType == MitreObject("n", "relationship", None, None, "", "a", "b")
RelMissingType == MitreObject("m", "relationship", None, None, None, "b", "a")
SoftC   == MitreObject("c", "malware", "S1", "d2", None, None, None)
GroupA  == MitreObject("a", "intrusion-set", "G2", None, None, None, None)
RelSelf == MitreObject("s", "relationship", None, None, "uses", "a", "a")
BlankDesc == MitreObject("w", "malware", None, "  ", None, None, None)

\* Bundles that the write requests of the document store carry.
WriteBundles ==
    { MitreBundle("bundle--1", "2.1", <<GroupB, TechA, RelBA>>),
      MitreBundle(None, "2.0", <<TechA2, RelBA, RelToRel>>),
      MitreBundle("bundle--3", "2.1", <<TechA, TechA2>>),
      MitreBundle("bundle--0", "2.1", <<>>) }

\* Objects and bundles that direct calls of store_mitre_bundle carry.
\* the bundles of concurrent writes: the entities of a bundle have distinct ids
RaceBundles ==
    { MitreBundle("bundle--1", "2.1", <<GroupB, TechA, RelBA>>),
      MitreBundle(None, "2.0", <<TechA2, RelBA, RelToRel>>),
      MitreBundle("bundle--0", "2.1", <<>>) }

\* the bundles of the writes that are listed
VersionBundles ==
    { MitreBundle("bundle--1", "2.1", <<GroupB, TechA, RelBA>>),
      MitreBundle("bundle--0", "2.1", <<>>) }

\* bundles with relationships that have no relationship_type
UntypedBundles ==
    { MitreBundle("bundle--5", "2.1", <<TechA, GroupB, RelNoType>>),
      MitreBundle("bundle--6", "2.1", <<TechA, GroupB, RelMissingType, RelBA>>),
      MitreBundle("bundle--7", "2.1", <<GroupB, RelNoType, TechA, RelAB, RelMissingType>>) }

\* bundles whose entities the chat retrieves
RagBundles ==
    { MitreBundle("bundle--8", "2.1", <<TechA2, GroupB, RelDang>>),
      MitreBundle("bundle--9", "2.1", <<SoftC, TechA2>>),
      MitreBundle("bundle--3", "2.1", <<GroupB>>) }

GraphObjs == {TechA, TechA2, GroupB, RelBA, RelToRel}
GraphBundles == {MitreBundle("bundle--g", "2.1", objs) : objs \in UNION {[1..k -> GraphObjs] : k \in 0..MaxObjs}}

\* Bundles of the graph that readers query.
ReadBundles ==
    { MitreBundle("bundle--1", "2.1", <<GroupB, TechA, RelBA>>),
      MitreBundle("bundle--2", "2.1", <<TechA, RelAB, GroupB, RelBA, RelSelf>>),
      MitreBundle("bundle--3", "2.1", <<GroupB>>),
      MitreBundle("bundle--4", "2.1", <<TechA, GroupA, GroupB, RelBA>>) }

\* no bundle: the content of an idle request, and of a graph never synced
NoBundle == MitreBundle(None, None, <<>>)

(***************************************************************************)
(* Sequence helpers.                                                       *)
(***************************************************************************)
Range(s) == {s[i] : i \in 1..Len(s)}

RECURSIVE SelectSeqBy(_, _)
\* [o for o in s if keep(o)] for keep = "node" / "relationship"
SelectSeqBy(s, rel) ==
    IF s = <<>> THEN <<>>
    ELSE IF (Head(s).type = "relationship") = rel
         THEN <<Head(s)>> \o SelectSeqBy(Tail(s), rel)
         ELSE SelectSeqBy(Tail(s), rel)

(***************************************************************************)
(* pydantic: model_dump(mode="json") and model_validate.                   *)
(***************************************************************************)
model_dump(obj) == [k \in ObjectFields |-> obj[k]]

model_validate(d) ==
    MitreObject(d["id"], d["type"],
                IF "name" \in DOMAIN d THEN d["name"] ELSE None,
                IF "description" \in DOMAIN d THEN d["description"] ELSE None,
                IF "relationship_type" \in DOMAIN d THEN d["relationship_type"] ELSE None,
                IF "source_ref" \in DOMAIN d THEN d["source_ref"] ELSE None,
                IF "target_ref" \in DOMAIN d THEN d["target_ref"] ELSE None)

(***************************************************************************)
(* Embeddings.                                                             *)
(***************************************************************************)
\* str.strip() on the strings of the model
strip(s) ==
    CASE s \in {" ", "  "} -> ""
      [] s = " t1 " -> "t1"
      [] OTHER -> s

\* (x or "")
OrEmpty(s) == IF s = None THEN "" ELSE s

_name_description_text(name, description) ==
    LET n == strip(OrEmpty(name))
        d == strip(OrEmpty(description))
    IN  IF n # "" /\ d # "" THEN <<"name: ", n, ". description: ", d>>
        ELSE IF n # "" THEN <<n>>
        ELSE IF d # "" THEN <<d>>
        ELSE <<>>

\* the vector the provider returns for a text
EmbeddingOf(text) == <<"vec", text>>

\* variant: no embedding for a relationship
EntityDocNoRelationship(obj) ==
    LET text == _name_description_text(obj.name, obj.description)
    IN  [_id |-> obj.id, fields |-> model_dump(obj),
         embedding |-> IF text # <<>> /\ obj.type # "relationship"
                       THEN EmbeddingOf(text) ELSE <<>>]

\* _entity_docs_with_embeddings: one document per object, in order
EntityDoc(obj) ==
    LET text == _name_description_text(obj.name, obj.description)
    IN  [_id |-> obj.id, fields |-> model_dump(obj),
         embedding |-> IF text # <<>> THEN EmbeddingOf(text) ELSE <<>>]

_entity_docs_with_embeddings(content) ==
    [i \in 1..Len(content.objects) |-> EntityDoc(content.objects[i])]

\* does _entity_docs_with_embeddings call the embedding provider?
NeedsEmbedding(content) ==
    \E i \in 1..Len(content.objects) :
        _name_description_text(content.objects[i].name, content.objects[i].description) # <<>>

(***************************************************************************)
(* Collections are functions from _id to document.                         *)
(***************************************************************************)
EmptyCollection == [x \in {} |-> None]

\* replace_one({"_id": k}, doc, upsert=True)
replace_one(coll, k, doc) ==
    [x \in (DOMAIN coll) \cup {k} |-> IF x = k THEN doc ELSE coll[x]]

RECURSIVE insert_many(_, _)
\* insert_many(docs): ordered, stops at the first duplicate _id (BulkWriteError)
insert_many(coll, ds) ==
    IF Len(ds) = 0 THEN [coll |-> coll, ok |-> TRUE]
    ELSE IF Head(ds)._id \in DOMAIN coll THEN [coll |-> coll, ok |-> FALSE]
    ELSE insert_many(replace_one(coll, Head(ds)._id, Head(ds)), Tail(ds))

\* variant: the document without its spec_version field
BundleDocumentNoSpecVersion(x_mitre_version, content, metadata) ==
    [_id |-> x_mitre_version,
     metadata |-> metadata,
     bundle_id |-> content.id,
     objects |-> [i \in 1..Len(content.objects) |-> model_dump(content.objects[i])]]

\* the document put_mitre_document / insert_mitre_document store for a version
BundleDocument(x_mitre_version, content, metadata) ==
    [_id |-> x_mitre_version,
     metadata |-> metadata,
     spec_version |-> content.spec_version,
     bundle_id |-> content.id,
     objects |-> [i \in 1..Len(content.objects) |-> model_dump(content.objects[i])]]

(***************************************************************************)
(* Neo4j projection.  A node is identified by its label and stix_id (the   *)
(* MERGE key of _create_node); edges are a bag, since CREATE never merges. *)
(***************************************************************************)
_stix_type_to_label(stix_type) ==
    CASE stix_type \in {"", None} -> "StixObject"
      [] stix_type = "attack-pattern" -> "AttackPattern"
      [] stix_type = "intrusion-set" -> "IntrusionSet"
      [] stix_type = "relationship" -> "Relationship"
      [] OTHER -> stix_type

_relationship_type_to_neo4j(rel_type) ==
    CASE rel_type \in {"", None} -> "RELATED_TO"
      [] rel_type = "uses" -> "USES"
      [] rel_type = "subtechnique-of" -> "SUBTECHNIQUE_OF"
      [] OTHER -> rel_type

\* _node_properties: the scalar fields that are not None, plus stix_id
_node_properties(obj) ==
    LET d == model_dump(obj)
        keys == {k \in ObjectFields \ {"relationship_type", "source_ref", "target_ref"} :
                    d[k] # None}
    IN  [k \in keys \cup {"stix_id"} |-> IF k = "stix_id" THEN d["id"] ELSE d[k]]

NodeKey(label, stix_id) == <<label, stix_id>>

\* MERGE (n:MitreEntity:label {stix_id: $stix_id}) SET n += $props
_create_node(nodes, label, props) ==
    LET key == NodeKey(label, props["stix_id"])
        old == IF key \in DOMAIN nodes THEN nodes[key] ELSE EmptyCollection
        new == [k \in (DOMAIN old) \cup (DOMAIN props) |->
                    IF k \in DOMAIN props THEN props[k] ELSE old[k]]
    IN  replace_one(nodes, key, new)

\* variant: MERGE of both end points, so that the edge is created whether or
\* not the nodes exist
_create_relationship_merge(nodes, edges, source_ref, target_ref, rel_type, rel_id) ==
    LET ends(ref) == IF \E k \in DOMAIN nodes : k[2] = ref
                     THEN {k \in DOMAIN nodes : k[2] = ref}
                     ELSE {NodeKey("StixObject", ref)}
    IN  edges (+) SetToBag({[src |-> a, tgt |-> b, type |-> rel_type, stix_id |-> rel_id] :
                              a \in ends(source_ref), b \in ends(target_ref)})

\* MATCH (a {stix_id: $source_ref}), (b {stix_id: $target_ref}) CREATE (a)-[r]->(b)
_create_relationship(nodes, edges, source_ref, target_ref, rel_type, rel_id) ==
    LET as == {k \in DOMAIN nodes : k[2] = source_ref}
        bs == {k \in DOMAIN nodes : k[2] = target_ref}
    IN  edges (+) SetToBag({[src |-> a, tgt |-> b, type |-> rel_type, stix_id |-> rel_id] :
                              a \in as, b \in bs})

\* nodes / relationships of store_mitre_bundle
NodeObjects(content) == SelectSeqBy(content.objects, FALSE)
RelObjects(content) == SelectSeqBy(content.objects, TRUE)

\* by_id of store_mitre_bundle: the ids of all objects, relationships included
by_id(content) == {content.objects[i].id : i \in 1..Len(content.objects)}

\* variant: by_id holds only the objects that the bundle lists before rel
SkipsRelationshipListedLater(content, rel) ==
    LET at == CHOOSE i \in 1..Len(content.objects) :
                  /\ content.objects[i] = rel
                  /\ \A j \in 1..(i - 1) : content.objects[j] # rel
        seen == {content.objects[j].id : j \in 1..(at - 1)}
    IN  \/ rel.source_ref \in {None, ""}
        \/ rel.target_ref \in {None, ""}
        \/ rel.relationship_type \in {None, ""}
        \/ rel.source_ref \notin seen
        \/ rel.target_ref \notin seen

\* the two `continue` tests of the relationship loop
SkipsRelationship(content, rel) ==
    \/ rel.source_ref \in {None, ""}
    \/ rel.target_ref \in {None, ""}
    \/ rel.relationship_type \in {None, ""}
    \/ rel.source_ref \notin by_id(content)
    \/ rel.target_ref \notin by_id(content)

(***************************************************************************)
(* Search: the documents the two searches return, and their merge.         *)
(***************************************************************************)
\* a document of a search result: the projected fields that the merge and
\* the response read
Hit(id, _id, _score) == [id |-> id, _id |-> _id, _score |-> _score]

\* the documents the searches of the model return: the same entity with two
\* scores, a document without the id field, a document whose id is empty
Hits ==
    { Hit("A", "A", 1), Hit("B", "B", 1), Hit("B", "B", 2), Hit("C", "C", 1),
      Hit(None, "D", 1), Hit("", "", 1) }

\* the documents the searches of a search request return
SearchHits == {Hit("A", "A", 1), Hit("B", "B", 1), Hit("B", "B", 2), Hit("", "", 1)}

SeqsUpTo(S, n) == UNION {[1..k -> S] : k \in 0..n}

\* python truthiness of a str | None
Truthy(x) == x \notin {None, ""}

\* d.get("id") or d.get("_id")
EntityId(d) == IF Truthy(d.id) THEN d.id ELSE d._id

RECURSIVE MergeLoop(_, _, _, _)
\* one for loop of _merge_vector_and_text over ds, entered with seen_ids and
\* merged: the two when the loop ends, and whether it ended by return
MergeLoop(ds, seen_ids, merged, top_k) ==
    IF Len(ds) = 0
    THEN [seen_ids |-> seen_ids, merged |-> merged, returned |-> FALSE]
    ELSE LET d == Head(ds)
             eid == EntityId(d)
         IN  IF Truthy(eid) /\ eid \notin seen_ids
             THEN IF Len(merged) + 1 >= top_k
                  THEN [seen_ids |-> seen_ids \cup {eid}, merged |-> Append(merged, d),
                        returned |-> TRUE]
                  ELSE MergeLoop(Tail(ds), seen_ids \cup {eid}, Append(merged, d), top_k)
             ELSE MergeLoop(Tail(ds), seen_ids, merged, top_k)

\* variant: the vector documents first
_merge_text_and_vector(vector_docs, text_docs, top_k) ==
    LET vector == MergeLoop(vector_docs, {}, <<>>, top_k)
    IN  IF vector.returned THEN vector.merged
        ELSE MergeLoop(text_docs, vector.seen_ids, vector.merged, top_k).merged

\* variant: no seen_ids, the text documents then the vector documents up to
\* top_k
_merge_without_seen_ids(vector_docs, text_docs, top_k) ==
    LET both == text_docs \o vector_docs
    IN  SubSeq(both, 1, IF Len(both) < top_k THEN Len(both) ELSE top_k)

\* _merge_vector_and_text: the text documents first, then the vector
\* documents, one per id, until top_k are merged
_merge_vector_and_text(vector_docs, text_docs, top_k) ==
    LET text == MergeLoop(text_docs, {}, <<>>, top_k)
    IN  IF text.returned THEN text.merged
        ELSE MergeLoop(vector_docs, text.seen_ids, text.merged, top_k).merged

\* a string built from pieces: the sequence of the pieces, "" being <<>>
RECURSIVE Join(_, _)
\* separator.join(parts)
Join(parts, separator) ==
    IF Len(parts) = 0 THEN <<>>
    ELSE IF Len(parts) = 1 THEN parts[1]
    ELSE parts[1] \o <<separator>> \o Join(Tail(parts), separator)

\* _format_entity: one line per field that the document has with a value
_format_entity(d) ==
    LET line(label, f) == IF f \in DOMAIN d /\ Truthy(d[f]) THEN <<<<label, d[f]>>>> ELSE <<>>
    IN  Join(line("Name: ", "name") \o line("Type: ", "type") \o line("ID: ", "id")
               \o line("Short name: ", "x_mitre_shortname")
               \o line("Description: ", "description"), "\n")

\* format_entities_as_context, with its default separator
format_entities_as_context(found) ==
    IF Len(found) = 0 THEN <<>>
    ELSE Join([i \in 1..Len(found) |-> _format_entity(found[i])], "\n\n---\n\n")

\* SearchResultEntry of a document
_doc_to_entry(doc) ==
    [id |-> IF Truthy(doc.id) THEN doc.id ELSE doc._id, score |-> doc._score]

(***************************************************************************)
(* State.                                                                  *)
(***************************************************************************)
VARIABLES
    docs,       \* mitre_documents: version -> bundle document
    entities,   \* mitre_entities: entity id -> entity document
    current,    \* current_schema: x_mitre_version of the document "current", or None
    mongoUp,    \* does MongoDB answer (FALSE: every operation raises PyMongoError)
    _client,    \* the module's AsyncIOMotorClient, or None
    _db,        \* the module's database handle, or None
    driver,     \* _driver of app.db.neo4j is set (TRUE) or None (FALSE)
    gnodes,     \* Neo4j: node key -> properties
    gedges,     \* Neo4j: bag of edges
    synced,     \* history: the graph as the last store_mitre_bundle that ran to
                \* its end left it
    req,        \* per request task: the call it runs and how far it has got
    resp,       \* response of the last GET /api/graph/adjacent
    search,     \* the search request in progress: its inputs, the calls it has
                \* issued, the hits it got and its response
    chat,       \* the chat request in progress, likewise
    svg,        \* response of the last GET /api/graph/svg
    now         \* the clock datetime.now reads, in microseconds

vars == <<docs, entities, current, mongoUp, _client, _db, driver, gnodes, gedges, synced, req, resp,
          search, chat, svg, now>>

mongoVars == <<docs, entities, current>>
graphVars == <<gnodes, gedges, synced>>
svcVars == <<search, chat, svg, now>>

(***************************************************************************)
(* The clock and the metadata of a stored bundle.                          *)
(***************************************************************************)
\* code points of the characters that tell two timestamps apart
PLUS == 43
DOT == 46
Digit(n) == 48 + n

\* datetime.isoformat() of a UTC time: the seconds, then the microseconds
\* after "." unless they are 0, then the offset "+00:00"; every field has a
\* fixed width, one digit here
isoformat(t) ==
    LET second == t \div MicrosPerSecond
        microsecond == t % MicrosPerSecond
    IN  IF microsecond = 0 THEN <<Digit(second), PLUS>>
        ELSE <<Digit(second), DOT, Digit(microsecond), PLUS>>

RECURSIVE StringLess(_, _)
\* the order of two strings in a sort of MongoDB: by code point, a prefix
\* before its extensions
StringLess(a, b) ==
    IF Len(b) = 0 THEN FALSE
    ELSE IF Len(a) = 0 THEN TRUE
    ELSE IF Head(a) # Head(b) THEN Head(a) < Head(b)
    ELSE StringLess(Tail(a), Tail(b))

\* MitreMetadata, as _make_metadata builds it (the size is the number of
\* objects here; the model does not count bytes).
MitreMetadata(x_mitre_version, content) ==
    [x_mitre_version |-> x_mitre_version, last_modified |-> isoformat(now),
     size |-> Len(content.objects), type |-> "application/json"]

IdleReq ==
    [op |-> "idle", v |-> None, content |-> NoBundle, pc |-> "idle", i |-> 0,
     result |-> "none", sync |-> "none"]

NoResp == [status |-> 0]

\* no search request is running
IdleSearch ==
    [pc |-> "idle", q |-> "", top_k |-> 0, calls |-> {}, text_docs |-> <<>>,
     vector_docs |-> <<>>, status |-> 0, results |-> <<>>]

\* no chat request is running
IdleChat ==
    [pc |-> "idle", utterance |-> "", calls |-> {}, rag_context |-> <<>>, failed |-> "none",
     llm |-> "none", system_content |-> None, status |-> 0]

Init ==
    /\ docs = EmptyCollection
    /\ entities = EmptyCollection
    /\ current = None
    /\ mongoUp = TRUE
    /\ _client = "client"
    /\ _db = "db"
    /\ driver \in BOOLEAN
    /\ gnodes = EmptyCollection
    /\ gedges = EmptyBag
    /\ synced = [nodes |-> EmptyCollection, edges |-> EmptyBag]
    /\ req = [p \in Procs |-> IdleReq]
    /\ resp = NoResp
    /\ search = IdleSearch
    /\ chat = IdleChat
    /\ svg = NoResp
    /\ now = 0

\* the request of p becomes r at position pc (and index i)
Goto(p, r, pc, i) == req' = [req EXCEPT ![p] = [r EXCEPT !.pc = pc, !.i = i]]

\* the request r of p ends with result
Return(p, r, result) ==
    req' = [req EXCEPT ![p] = [r EXCEPT !.pc = "done", !.i = 0, !.result = result]]

\* the request r of p ends with result, its graph sync having ended as sync
ReturnSync(p, r, result, sync) ==
    req' = [req EXCEPT ![p] =
               [r EXCEPT !.pc = "done", !.i = 0, !.result = result, !.sync = sync]]

(***************************************************************************)
(* MongoDB stops and resumes answering.                                    *)
(***************************************************************************)
MongoGoesDown ==
    /\ mongoUp
    /\ mongoUp' = FALSE
    /\ UNCHANGED <<docs, entities, current, _client, _db, driver, gnodes, gedges, synced, req,
                   resp, svcVars>>

MongoComesUp ==
    /\ ~mongoUp
    /\ mongoUp' = TRUE
    /\ UNCHANGED <<docs, entities, current, _client, _db, driver, gnodes, gedges, synced, req,
                   resp, svcVars>>

(***************************************************************************)
(* Writes: insert_mitre_document (create) and put_mitre_document (replace).*)
(* A call starts with its first store operation; when it is done its       *)
(* result stays with the task until the response has been sent.            *)
(***************************************************************************)
Free(p) == req[p].pc = "idle"

\* the handler hands its result to the client and the task ends
Respond(p) ==
    /\ req[p].pc = "done"
    /\ req' = [req EXCEPT ![p] = IdleReq]
    /\ UNCHANGED <<docs, entities, current, mongoUp, _client, _db, driver, gnodes, gedges, synced, resp, svcVars>>

NewReq(op, v, content) ==
    [op |-> op, v |-> v, content |-> content, pc |-> "doc", i |-> 0,
     result |-> "none", sync |-> "none"]

\* variant: step 1 as an upsert, without the unique-key rejection
InsertDocumentUpsert(p, v, content) ==
    LET r == NewReq("create", v, content)
    IN  /\ Free(p)
        /\ IF ~mongoUp
           THEN Return(p, r, "MitreDBError") /\ docs' = docs
           ELSE /\ docs' = replace_one(docs, v,
                                BundleDocument(v, content, MitreMetadata(v, content)))
                /\ Goto(p, r, "delete", 0)
        /\ UNCHANGED <<entities, current, mongoUp, _client, _db, driver, gnodes, gedges, synced, resp, svcVars>>

\* variant: the cache is cleared before the insert_one that can be rejected
InsertDocumentAfterClear(p, v, content) ==
    LET r == NewReq("create", v, content)
    IN  /\ Free(p)
        /\ IF ~mongoUp
           THEN Return(p, r, "MitreDBError") /\ docs' = docs /\ entities' = entities
           ELSE IF v \in DOMAIN docs
           THEN /\ Return(p, r, "DuplicateVersion")
                /\ docs' = docs /\ entities' = EmptyCollection
           ELSE /\ docs' = replace_one(docs, v,
                                BundleDocument(v, content, MitreMetadata(v, content)))
                /\ entities' = entities
                /\ Goto(p, r, "delete", 0)
        /\ UNCHANGED <<current, mongoUp, _client, _db, driver, gnodes, gedges, synced, resp, svcVars>>

\* PUT /api/mitre/ -> insert_mitre_document(version, content, metadata),
\* step 1: docs_collection.insert_one(doc)
InsertDocument(p, v, content) ==
    LET r == NewReq("create", v, content)
    IN  /\ Free(p)
        /\ IF ~mongoUp
           THEN Return(p, r, "MitreDBError") /\ docs' = docs
           ELSE IF v \in DOMAIN docs
           THEN Return(p, r, "DuplicateVersion") /\ docs' = docs
           ELSE /\ docs' = replace_one(docs, v,
                                BundleDocument(v, content, MitreMetadata(v, content)))
                /\ Goto(p, r, "delete", 0)
        /\ UNCHANGED <<entities, current, mongoUp, _client, _db, driver, gnodes, gedges, synced, resp, svcVars>>

\* variant: step 1 as replace_one without upsert, which stores nothing when
\* the version has no document
ReplaceDocumentNoUpsert(p, v, content) ==
    LET r == NewReq("replace", v, content)
    IN  /\ Free(p)
        /\ IF ~mongoUp
           THEN Return(p, r, "MitreDBError") /\ docs' = docs
           ELSE /\ docs' = IF v \in DOMAIN docs
                            THEN replace_one(docs, v,
                                    BundleDocument(v, content, MitreMetadata(v, content)))
                            ELSE docs
                /\ Goto(p, r, "delete", 0)
        /\ UNCHANGED <<entities, current, mongoUp, _client, _db, driver, gnodes, gedges, synced, resp, svcVars>>

\* variant: step 1 keeps only the document it stores
ReplaceDocumentAlone(p, v, content) ==
    LET r == NewReq("replace", v, content)
    IN  /\ Free(p)
        /\ IF ~mongoUp
           THEN Return(p, r, "MitreDBError") /\ docs' = docs
           ELSE /\ docs' = replace_one(EmptyCollection, v,
                                BundleDocument(v, content, MitreMetadata(v, content)))
                /\ Goto(p, r, "delete", 0)
        /\ UNCHANGED <<entities, current, mongoUp, _client, _db, driver, gnodes, gedges, synced, resp, svcVars>>

\* PUT /api/mitre/{version} -> put_mitre_document(version, content, metadata),
\* step 1: docs_collection.replace_one(..., upsert=True)
ReplaceDocument(p, v, content) ==
    LET r == NewReq("replace", v, content)
    IN  /\ Free(p)
        /\ IF ~mongoUp
           THEN Return(p, r, "MitreDBError") /\ docs' = docs
           ELSE /\ docs' = replace_one(docs, v,
                                BundleDocument(v, content, MitreMetadata(v, content)))
                /\ Goto(p, r, "delete", 0)
        /\ UNCHANGED <<entities, current, mongoUp, _client, _db, driver, gnodes, gedges, synced, resp, svcVars>>

\* variant: step 2a without the delete_many
DeleteEntitiesKeep(p) ==
    LET r == req[p]
    IN  /\ r.pc = "delete"
        /\ IF ~mongoUp
           THEN Return(p, r, "MitreDBError") /\ entities' = entities
           ELSE entities' = entities /\ Goto(p, r, "embed", 0)
        /\ UNCHANGED <<docs, current, mongoUp, _client, _db, driver, gnodes, gedges, synced, resp, svcVars>>

\* variant: the pointer is set first, as the docstring of put_mitre_document
\* lists the collections, together with the clearing of the cache
DeleteEntitiesPointerFirst(p) ==
    LET r == req[p]
    IN  /\ r.pc = "delete"
        /\ IF ~mongoUp
           THEN Return(p, r, "MitreDBError") /\ entities' = entities /\ current' = current
           ELSE entities' = EmptyCollection /\ current' = r.v /\ Goto(p, r, "embed", 0)
        /\ UNCHANGED <<docs, mongoUp, _client, _db, driver, gnodes, gedges, synced, resp, svcVars>>

\* step 2a: entities_collection.delete_many({})
DeleteEntities(p) ==
    LET r == req[p]
    IN  /\ r.pc = "delete"
        /\ IF ~mongoUp
           THEN Return(p, r, "MitreDBError") /\ entities' = entities
           ELSE entities' = EmptyCollection /\ Goto(p, r, "embed", 0)
        /\ UNCHANGED <<docs, current, mongoUp, _client, _db, driver, gnodes, gedges, synced, resp, svcVars>>

\* step 2b: _entity_docs_with_embeddings(content); the provider answers
EmbedEntities(p) ==
    LET r == req[p]
    IN  /\ r.pc = "embed"
        /\ Goto(p, r, "insert", 0)
        /\ UNCHANGED <<docs, entities, current, mongoUp, _client, _db, driver, gnodes, gedges, synced, resp, svcVars>>

\* variant: the write takes its document back when the embedding fails
EmbeddingFailsRollsBack(p) ==
    LET r == req[p]
    IN  /\ r.pc = "embed"
        /\ NeedsEmbedding(r.content)
        /\ Return(p, r, "EmbeddingError")
        /\ docs' = [v \in DOMAIN docs \ {r.v} |-> docs[v]]
        /\ UNCHANGED <<entities, current, mongoUp, _client, _db, driver, gnodes, gedges, synced, resp, svcVars>>

\* step 2b: embed_texts_batch raises (the provider is down); the exception is
\* no PyMongoError, so the write lets it through as it is
EmbeddingFails(p) ==
    LET r == req[p]
    IN  /\ r.pc = "embed"
        /\ NeedsEmbedding(r.content)
        /\ Return(p, r, "EmbeddingError")
        /\ UNCHANGED <<docs, entities, current, mongoUp, _client, _db, driver, gnodes, gedges, synced, resp, svcVars>>

\* variant: a duplicate key of insert_many is reported as the duplicate key of
\* insert_one is
InsertEntitiesDuplicateVersion(p) ==
    LET r == req[p]
        entity_docs == _entity_docs_with_embeddings(r.content)
        ins == insert_many(entities, entity_docs)
    IN  /\ r.pc = "insert"
        /\ IF Len(entity_docs) = 0
           THEN entities' = entities /\ Goto(p, r, "pointer", 0)
           ELSE IF ~mongoUp
           THEN Return(p, r, "MitreDBError") /\ entities' = entities
           ELSE /\ entities' = ins.coll
                /\ IF ins.ok THEN Goto(p, r, "pointer", 0)
                   ELSE Return(p, r, IF r.op = "create" THEN "DuplicateVersion"
                                                        ELSE "MitreDBError")
        /\ UNCHANGED <<docs, current, mongoUp, _client, _db, driver, gnodes, gedges, synced, resp, svcVars>>

\* variant: the pointer is set in the same step as insert_many, whatever
\* insert_many answers
InsertEntitiesWithPointer(p) ==
    LET r == req[p]
        entity_docs == _entity_docs_with_embeddings(r.content)
        ins == insert_many(entities, entity_docs)
    IN  /\ r.pc = "insert"
        /\ IF Len(entity_docs) = 0
           THEN entities' = entities /\ current' = current /\ Goto(p, r, "pointer", 0)
           ELSE IF ~mongoUp
           THEN Return(p, r, "MitreDBError") /\ entities' = entities /\ current' = current
           ELSE /\ entities' = ins.coll
                /\ current' = r.v
                /\ IF ins.ok THEN Goto(p, r, "pointer", 0)
                   ELSE Return(p, r, "MitreDBError")
        /\ UNCHANGED <<docs, mongoUp, _client, _db, driver, gnodes, gedges, synced, resp, svcVars>>

\* step 2c: if entity_docs: entities_collection.insert_many(entity_docs)
InsertEntities(p) ==
    LET r == req[p]
        entity_docs == _entity_docs_with_embeddings(r.content)
        ins == insert_many(entities, entity_docs)
    IN  /\ r.pc = "insert"
        /\ IF Len(entity_docs) = 0
           THEN entities' = entities /\ Goto(p, r, "pointer", 0)
           ELSE IF ~mongoUp
           THEN Return(p, r, "MitreDBError") /\ entities' = entities
           ELSE /\ entities' = ins.coll
                /\ IF ins.ok THEN Goto(p, r, "pointer", 0)
                   ELSE Return(p, r, "MitreDBError")
        /\ UNCHANGED <<docs, current, mongoUp, _client, _db, driver, gnodes, gedges, synced, resp, svcVars>>

\* variant: step 3 sets the pointer only when there is none yet
SetCurrentIfUnset(p) ==
    LET r == req[p]
    IN  /\ r.pc = "pointer"
        /\ IF ~mongoUp
           THEN Return(p, r, "MitreDBError") /\ current' = current
           ELSE /\ current' = IF current = None THEN r.v ELSE current
                /\ Goto(p, r, "graph", 0)
        /\ UNCHANGED <<docs, entities, mongoUp, _client, _db, driver, gnodes, gedges, synced, resp, svcVars>>

\* variant: a pointer step that fails leaves no pointer document
SetCurrentOrClear(p) ==
    LET r == req[p]
    IN  /\ r.pc = "pointer"
        /\ IF ~mongoUp
           THEN Return(p, r, "MitreDBError") /\ current' = None
           ELSE current' = r.v /\ Goto(p, r, "graph", 0)
        /\ UNCHANGED <<docs, entities, mongoUp, _client, _db, driver, gnodes, gedges, synced, resp, svcVars>>

\* step 3: schema_collection.replace_one({"_id": "current"}, ..., upsert=True)
SetCurrent(p) ==
    LET r == req[p]
    IN  /\ r.pc = "pointer"
        /\ IF ~mongoUp
           THEN Return(p, r, "MitreDBError") /\ current' = current
           ELSE current' = r.v /\ Goto(p, r, "graph", 0)
        /\ UNCHANGED <<docs, entities, mongoUp, _client, _db, driver, gnodes, gedges, synced, resp, svcVars>>

(***************************************************************************)
(* store_mitre_bundle: step 4 of a write (best effort), or called alone.   *)
(***************************************************************************)
\* variant: every caller passes the exception of the sync on
AfterSyncFailureRaises(op) == "Neo4jError"

\* what the caller of store_mitre_bundle returns when the sync raised:
\* a write logs the exception and succeeds, a direct call gets the exception
AfterSyncFailure(op) == IF op \in {"sync", "resync"} THEN "Neo4jError" ELSE "ok"

\* the next creation of the two loops from position (pc, i) on, or the end
RECURSIVE NextGraphStep(_, _, _)
NextGraphStep(content, pc, i) ==
    IF pc = "nodes"
    THEN IF i <= Len(NodeObjects(content)) THEN <<"nodes", i>>
         ELSE NextGraphStep(content, "rels", 1)
    ELSE IF i <= Len(RelObjects(content)) THEN <<"rels", i>>
         ELSE <<"done", 0>>

\* move the sync r of p to position pos; at the end of the loops it has succeeded
Advance(p, r, pos) ==
    IF pos[1] = "done"
    THEN /\ ReturnSync(p, r, "ok", "synced")
         /\ synced' = [nodes |-> gnodes', edges |-> gedges']
    ELSE /\ Goto(p, r, pos[1], pos[2])
         /\ synced' = synced

\* driver is None: log and return
SkipSync(p, r) ==
    /\ ~driver
    /\ ReturnSync(p, r, "ok", "skipped")
    /\ UNCHANGED <<docs, entities, current, mongoUp, _client, _db, driver, gnodes, gedges, synced, resp, svcVars>>

\* variant: the clearing transaction deletes the edges and keeps the nodes
ClearGraphEdgesOnly(p, r) ==
    /\ driver
    /\ gnodes' = gnodes
    /\ gedges' = EmptyBag
    /\ Advance(p, r, NextGraphStep(r.content, "nodes", 1))
    /\ UNCHANGED <<docs, entities, current, mongoUp, _client, _db, driver, resp, svcVars>>

\* variant: the clearing transaction deletes nothing
ClearGraphNothing(p, r) ==
    /\ driver
    /\ gnodes' = gnodes
    /\ gedges' = gedges
    /\ Advance(p, r, NextGraphStep(r.content, "nodes", 1))
    /\ UNCHANGED <<docs, entities, current, mongoUp, _client, _db, driver, resp, svcVars>>

\* session.execute_write(_clear_mitre_graph): MATCH (n:MitreEntity) DETACH DELETE n
ClearGraph(p, r) ==
    /\ driver
    /\ gnodes' = EmptyCollection
    /\ gedges' = EmptyBag
    /\ Advance(p, r, NextGraphStep(r.content, "nodes", 1))
    /\ UNCHANGED <<docs, entities, current, mongoUp, _client, _db, driver, resp, svcVars>>

\* driver.session() or the clearing transaction raises
ClearFails(p, r) ==
    /\ driver
    /\ ReturnSync(p, r, AfterSyncFailure(r.op), "failed")
    /\ UNCHANGED <<docs, entities, current, mongoUp, _client, _db, driver, gnodes, gedges, synced, resp, svcVars>>

\* the entry of store_mitre_bundle for request r of p
EnterSync(p, r) == SkipSync(p, r) \/ ClearGraph(p, r) \/ ClearFails(p, r)

\* step 4 of a write: await store_mitre_bundle(content)
SyncAfterWrite(p) ==
    /\ req[p].pc = "graph"
    /\ EnterSync(p, req[p])

\* a direct call of store_mitre_bundle(content)
StoreMitreBundle(p, content) ==
    /\ Free(p)
    /\ EnterSync(p, [NewReq("sync", None, content) EXCEPT !.pc = "graph"])

\* store_mitre_bundle(content) called once more, right after a call with the
\* same content has returned
StoreMitreBundleAgain(p) ==
    /\ req[p].pc = "done" /\ req[p].op = "sync" /\ req[p].sync = "synced"
    /\ EnterSync(p, [NewReq("resync", None, req[p].content) EXCEPT !.pc = "graph"])

\* one turn of the node loop: session.execute_write(_create_node, label, props)
CreateNode(p) ==
    LET r == req[p]
        obj == NodeObjects(r.content)[r.i]
    IN  /\ r.pc = "nodes"
        /\ gnodes' = _create_node(gnodes, _stix_type_to_label(obj.type), _node_properties(obj))
        /\ gedges' = gedges
        /\ Advance(p, r, NextGraphStep(r.content, "nodes", r.i + 1))
        /\ UNCHANGED <<docs, entities, current, mongoUp, _client, _db, driver, resp, svcVars>>

\* one turn of the relationship loop: continue, or
\* session.execute_write(_create_relationship, source_ref, target_ref, rel_type, rel.id)
CreateRelationship(p) ==
    LET r == req[p]
        rel == RelObjects(r.content)[r.i]
    IN  /\ r.pc = "rels"
        /\ gedges' = IF SkipsRelationship(r.content, rel) THEN gedges
                      ELSE _create_relationship(gnodes, gedges, rel.source_ref, rel.target_ref,
                               _relationship_type_to_neo4j(rel.relationship_type), rel.id)
        /\ gnodes' = gnodes
        /\ Advance(p, r, NextGraphStep(r.content, "rels", r.i + 1))
        /\ UNCHANGED <<docs, entities, current, mongoUp, _client, _db, driver, resp, svcVars>>

\* the transaction of the pending creation raises
CreateFails(p) ==
    LET r == req[p]
    IN  /\ IF r.pc = "rels"
           THEN ~SkipsRelationship(r.content, RelObjects(r.content)[r.i])
           ELSE r.pc = "nodes"
        /\ ReturnSync(p, r, AfterSyncFailure(r.op), "failed")
        /\ UNCHANGED <<docs, entities, current, mongoUp, _client, _db, driver, gnodes, gedges, synced, resp, svcVars>>

(***************************************************************************)
(* Reads of the document store.                                            *)
(***************************************************************************)
NotFound == [found |-> FALSE]

\* get_mitre_version
get_mitre_version == current

\* find_one({"_id": version}) on a documents collection, and the (content,
\* metadata) built from the document; None when there is none
ContentOf(collection, x_mitre_version) ==
    IF x_mitre_version \notin DOMAIN collection THEN NotFound
    ELSE LET doc == collection[x_mitre_version]
         IN  [found |-> TRUE,
              metadata |-> doc.metadata,
              content |-> MitreBundle(
                  IF "bundle_id" \in DOMAIN doc THEN doc.bundle_id ELSE None,
                  IF "spec_version" \in DOMAIN doc THEN doc.spec_version ELSE "2.1",
                  [i \in 1..Len(doc.objects) |-> model_validate(doc.objects[i])])]

\* get_mitre_content_by_version: (content, metadata) or None
get_mitre_content_by_version(x_mitre_version) == ContentOf(docs, x_mitre_version)

\* get_mitre_content: the content of the current version
get_mitre_content ==
    IF get_mitre_version = None THEN NotFound
    ELSE get_mitre_content_by_version(get_mitre_version)

\* the (version, metadata) pairs of the documents in the order of l
VersionList(l) ==
    [i \in 1..Len(l) |-> [x_mitre_version |-> l[i], metadata |-> docs[l[i]].metadata]]

\* the orders in which find({}) can return every document once
FindAll ==
    {l \in [1..Cardinality(DOMAIN docs) -> DOMAIN docs] :
        \A i, j \in DOMAIN l : i # j => l[i] # l[j]}

\* variant: sort("metadata.last_modified", 1), oldest first
list_mitre_versions_ascending ==
    {VersionList(l) : l \in {l \in FindAll :
        \A i, j \in DOMAIN l :
            i < j => ~StringLess(docs[l[j]].metadata.last_modified,
                                 docs[l[i]].metadata.last_modified)}}

\* list_mitre_versions: find({}).sort("metadata.last_modified", -1); the
\* order of documents with equal keys is left open, so the lists the call
\* can return
list_mitre_versions ==
    {VersionList(l) : l \in {l \in FindAll :
        \A i, j \in DOMAIN l :
            i < j => ~StringLess(docs[l[i]].metadata.last_modified,
                                 docs[l[j]].metadata.last_modified)}}

\* GET /api/mitre/version: 404 when get_mitre_version returns None, 503
\* when the store does not answer
get_mitre_version_endpoint ==
    IF ~mongoUp THEN [status |-> 503]
    ELSE IF get_mitre_version = None THEN [status |-> 404]
    ELSE [status |-> 200, x_mitre_version |-> get_mitre_version]

(***************************************************************************)
(* The status the two PUT endpoints answer with for a result of the write. *)
(***************************************************************************)
\* PUT /api/mitre/ (create)
put_mitre(result) ==
    CASE result = "ok" -> 201
      [] result = "DuplicateVersion" -> 409
      [] result = "MitreDBError" -> 503
      [] result = "NotInitialized" -> 503
      [] OTHER -> 500

\* PUT /api/mitre/{x_mitre_version} (replace)
put_mitre_by_version(result) ==
    CASE result = "ok" -> 200
      [] result = "MitreDBError" -> 503
      [] result = "NotInitialized" -> 503
      [] OTHER -> 500

(***************************************************************************)
(* Reads of the graph.                                                     *)
(***************************************************************************)
RECURSIVE SumCopies(_, _)
\* number of copies in bag b of the elements of set S
SumCopies(b, S) ==
    IF S = {} THEN 0
    ELSE LET e == CHOOSE x \in S : TRUE
         IN  CopiesIn(e, b) + SumCopies(b, S \ {e})

\* variant: from_center taken from endNode(r)
AdjacentEntryFromEnd(nodes, e, n) ==
    LET other == IF e.src = n THEN e.tgt ELSE e.src
    IN  [relationship |-> [type |-> e.type, stix_id |-> e.stix_id],
         direction |-> IF e.tgt[2] = n[2] THEN "outgoing" ELSE "incoming",
         node |-> nodes[other]]

\* the row _ADJACENT_CYPHER returns for edge e seen from node n
AdjacentEntry(nodes, e, n) ==
    LET other == IF e.src = n THEN e.tgt ELSE e.src
    IN  [relationship |-> [type |-> e.type, stix_id |-> e.stix_id],
         direction |-> IF e.src[2] = n[2] THEN "outgoing" ELSE "incoming",
         node |-> nodes[other]]

\* variant: MATCH (n)-[r]-(other) in place of OPTIONAL MATCH, no record for
\* a node without a neighbour
AdjacentMatch(nodes, edges, stix_id) ==
    LET centers == {k \in DOMAIN nodes : k[2] = stix_id}
        touching == {e \in BagToSet(edges) : (e.src[2] = stix_id) # (e.tgt[2] = stix_id)}
        centerOf(e) == IF e.src[2] = stix_id THEN e.src ELSE e.tgt
        entries == {AdjacentEntry(nodes, e, centerOf(e)) : e \in touching}
        adjacent == [x \in entries |->
                        SumCopies(edges, {e \in touching :
                                            AdjacentEntry(nodes, e, centerOf(e)) = x})]
    IN  IF centers = {} \/ touching = {} THEN {NotFound}
        ELSE {[found |-> TRUE, node |-> nodes[n], adjacent |-> adjacent] : n \in centers}

\* variant: _ADJACENT_CYPHER without WHERE other.stix_id <> n.stix_id
AdjacentNoWhere(nodes, edges, stix_id) ==
    LET centers == {k \in DOMAIN nodes : k[2] = stix_id}
        touching == {e \in BagToSet(edges) : e.src[2] = stix_id \/ e.tgt[2] = stix_id}
        centerOf(e) == IF e.src[2] = stix_id THEN e.src ELSE e.tgt
        entries == {AdjacentEntry(nodes, e, centerOf(e)) : e \in touching}
        adjacent == [x \in entries |->
                        SumCopies(edges, {e \in touching :
                                            AdjacentEntry(nodes, e, centerOf(e)) = x})]
    IN  IF centers = {} THEN {NotFound}
        ELSE {[found |-> TRUE, node |-> nodes[n], adjacent |-> adjacent] : n \in centers}

\* the records of _ADJACENT_CYPHER on a graph, as get_adjacent folds them.
\* Every node with the stix_id is a center (MERGE keeps one node per label),
\* an edge to a node with another stix_id gives one record, and the node
\* returned is the center of the record that comes first, in an order the
\* query leaves open: the set of the answers the call can give, {None} or
\* one answer per center, each with the bag of all adjacent entries.
Adjacent(nodes, edges, stix_id) ==
    LET centers == {k \in DOMAIN nodes : k[2] = stix_id}
        touching == {e \in BagToSet(edges) : (e.src[2] = stix_id) # (e.tgt[2] = stix_id)}
        centerOf(e) == IF e.src[2] = stix_id THEN e.src ELSE e.tgt
        entries == {AdjacentEntry(nodes, e, centerOf(e)) : e \in touching}
        adjacent == [x \in entries |->
                        SumCopies(edges, {e \in touching :
                                            AdjacentEntry(nodes, e, centerOf(e)) = x})]
    IN  IF centers = {} THEN {NotFound}
        ELSE {[found |-> TRUE, node |-> nodes[n], adjacent |-> adjacent] : n \in centers}

\* variant: the reader is served from the graph as the last completed
\* rebuild left it
get_adjacent_snapshot(stix_id) ==
    IF ~driver THEN {NotFound} ELSE Adjacent(synced.nodes, synced.edges, stix_id)

\* get_adjacent(stix_id): None when the driver is None or no record comes back
get_adjacent(stix_id) ==
    IF ~driver THEN {NotFound} ELSE Adjacent(gnodes, gedges, stix_id)

\* the response of GET /api/graph/adjacent for a result of get_adjacent
AdjacentResponse(stix_id, result) ==
    IF ~result.found
    THEN [status |-> 404, stix_id |-> stix_id,
          detail |-> "No node found with stix_id or Neo4j is unavailable."]
    ELSE [status |-> 200, stix_id |-> stix_id, body |-> result]

\* variant: 503 when there is no driver, as GET /api/graph/svg answers
get_adjacent_endpoint_503(stix_id) ==
    IF ~driver
    THEN {[status |-> 503, stix_id |-> stix_id, detail |-> "Neo4j is not available."]}
    ELSE {AdjacentResponse(stix_id, result) : result \in get_adjacent(stix_id)}

\* GET /api/graph/adjacent: 404 when get_adjacent returns None
get_adjacent_endpoint(stix_id) ==
    {AdjacentResponse(stix_id, result) : result \in get_adjacent(stix_id)}

\* the ids a reader asks for
QueryIds == {"a", "b", "x"}

\* variant: the query MERGEs the node it asks for, so that a node is made
\* when there is none
GetAdjacentMerge(stix_id) ==
    /\ resp' \in get_adjacent_endpoint(stix_id)
    /\ gnodes' = IF driver /\ \A k \in DOMAIN gnodes : k[2] # stix_id
                 THEN _create_node(gnodes, "StixObject", [stix_id |-> stix_id])
                 ELSE gnodes
    /\ UNCHANGED <<docs, entities, current, mongoUp, _client, _db, driver, gedges, synced, req, svcVars>>

\* a request GET /api/graph/adjacent?stix_id=... that is answered
GetAdjacent(stix_id) ==
    /\ resp' \in get_adjacent_endpoint(stix_id)
    /\ UNCHANGED <<docs, entities, current, mongoUp, _client, _db, driver, gnodes, gedges, synced, req, svcVars>>

\* the same request when session.run raises: an unhandled exception, 500
GetAdjacentFails(stix_id) ==
    /\ driver
    /\ resp' = [status |-> 500, stix_id |-> stix_id]
    /\ UNCHANGED <<docs, entities, current, mongoUp, _client, _db, driver, gnodes, gedges, synced, req, svcVars>>

\* the record {"a", "r", "b"} _USES_INTO_CYPHER returns for edge e
UsesIntoRecord(nodes, e) ==
    [a |-> nodes[e.src], r |-> [type |-> e.type, stix_id |-> e.stix_id], b |-> nodes[e.tgt]]

\* variant: WHERE b.stix_id = $stix_id, the edges into the node only
UsesIntoIncoming(nodes, edges, stix_id) ==
    LET matched == {e \in BagToSet(edges) : e.tgt[2] = stix_id}
        records == {UsesIntoRecord(nodes, e) : e \in matched}
    IN  [x \in records |-> SumCopies(edges, {e \in matched : UsesIntoRecord(nodes, e) = x})]

\* the records of _USES_INTO_CYPHER on a graph: one per edge (a)-[r]->(b)
\* with b.stix_id = $stix_id OR a.stix_id = $stix_id, as a bag
UsesInto(nodes, edges, stix_id) ==
    LET matched == {e \in BagToSet(edges) : e.tgt[2] = stix_id \/ e.src[2] = stix_id}
        records == {UsesIntoRecord(nodes, e) : e \in matched}
    IN  [x \in records |-> SumCopies(edges, {e \in matched : UsesIntoRecord(nodes, e) = x})]

\* get_uses_into_records(stix_id): None when the driver is None, else the
\* list of the records
get_uses_into_records(stix_id) ==
    IF ~driver THEN NotFound
    ELSE [found |-> TRUE, records |-> UsesInto(gnodes, gedges, stix_id)]

\* GET /api/graph/svg: 503 for None, 404 for no record, else the drawing of
\* the records
get_svg_endpoint(stix_id) ==
    LET result == get_uses_into_records(stix_id)
    IN  IF ~result.found
        THEN [status |-> 503, stix_id |-> stix_id, detail |-> "Neo4j is unavailable."]
        ELSE IF result.records = EmptyBag
        THEN [status |-> 404, stix_id |-> stix_id,
              detail |-> "No USES relationships found for stix_id."]
        ELSE [status |-> 200, stix_id |-> stix_id, svg |-> result.records]

\* a request GET /api/graph/svg?stix_id=... that is answered
GetSvg(stix_id) ==
    /\ svg' = get_svg_endpoint(stix_id)
    /\ UNCHANGED <<docs, entities, current, mongoUp, _client, _db, driver, gnodes, gedges, synced, req, resp,
                   search, chat, now>>

(***************************************************************************)
(* Search.                                                                 *)
(***************************************************************************)
\* _merge_vector_and_text is called with the documents of the two searches
MergeResults ==
    /\ search.pc = "merge"
    /\ search' = [search EXCEPT
                     !.pc = "done",
                     !.status = 200,
                     !.results = _merge_vector_and_text(search.vector_docs,
                                                        search.text_docs, search.top_k)]
    /\ UNCHANGED <<docs, entities, current, mongoUp, _client, _db, driver, gnodes, gedges, synced, req,
                   resp, chat, svg, now>>

\* the queries and the last user messages of the model
Queries == {"", " ", "  ", "t1", " t1 "}

\* variant: the handler tests q without stripping it
SearchEntitiesNoStrip(q, top_k) ==
    /\ search.pc \in {"idle", "done"}
    /\ search' = IF q = ""
                  THEN [IdleSearch EXCEPT !.pc = "done", !.q = q, !.top_k = top_k,
                                          !.status = 422]
                  ELSE [IdleSearch EXCEPT !.pc = "embed", !.q = q, !.top_k = top_k]
    /\ UNCHANGED <<docs, entities, current, mongoUp, _client, _db, driver, gnodes, gedges, synced, req,
                   resp, chat, svg, now>>

\* GET /api/search/?q=...&top_k=...: Query(min_length=1) rejects the empty q
\* before the handler runs, the handler rejects a q that is blank
SearchEntities(q, top_k) ==
    /\ search.pc \in {"idle", "done"}
    /\ search' = IF q = ""
                  THEN [IdleSearch EXCEPT !.pc = "done", !.q = q, !.top_k = top_k,
                                          !.status = 422]
                  ELSE IF strip(q) = ""
                  THEN [IdleSearch EXCEPT !.pc = "done", !.q = q, !.top_k = top_k,
                                          !.status = 400]
                  ELSE [IdleSearch EXCEPT !.pc = "embed", !.q = q, !.top_k = top_k]
    /\ UNCHANGED <<docs, entities, current, mongoUp, _client, _db, driver, gnodes, gedges, synced, req,
                   resp, chat, svg, now>>

\* the request c after the call it waits for has raised
SearchFailsWith(c, call) ==
    [c EXCEPT !.pc = "done", !.calls = @ \cup {call}, !.status = 503]

\* embedding = await embed_text(query): the provider returns a vector, or none
SearchEmbed(embedding) ==
    /\ search.pc = "embed"
    /\ search' = [search EXCEPT !.pc = IF embedding THEN "text" ELSE "text only",
                                 !.calls = @ \cup {"embed_text"}]
    /\ UNCHANGED <<docs, entities, current, mongoUp, _client, _db, driver, gnodes, gedges, synced, req,
                   resp, chat, svg, now>>

\* text_docs = await search_entities_by_text(query, top_k=top_k): at most top_k
\* documents of the latest-entities cache, which holds one document per
\* _id; without embedding they are the result
SearchText(text_docs) ==
    /\ search.pc \in {"text", "text only"}
    /\ Len(text_docs) <= search.top_k
    /\ \A i, j \in DOMAIN text_docs : i # j => text_docs[i]._id # text_docs[j]._id
    /\ search' = IF search.pc = "text"
                  THEN [search EXCEPT !.pc = "vector", !.text_docs = text_docs,
                                      !.calls = @ \cup {"search_entities_by_text"}]
                  ELSE [search EXCEPT !.pc = "done", !.text_docs = text_docs,
                                      !.calls = @ \cup {"search_entities_by_text"},
                                      !.status = 200,
                                      !.results = [i \in 1..Len(text_docs) |->
                                                      _doc_to_entry(text_docs[i])]]
    /\ UNCHANGED <<docs, entities, current, mongoUp, _client, _db, driver, gnodes, gedges, synced, req,
                   resp, chat, svg, now>>

\* vector_docs = await search_entities_by_embedding(embedding, top_k=top_k),
\* then the merge and the response
SearchVector(vector_docs) ==
    /\ search.pc = "vector"
    /\ Len(vector_docs) <= search.top_k
    /\ LET merged == _merge_vector_and_text(vector_docs, search.text_docs, search.top_k)
       IN  search' = [search EXCEPT !.pc = "done", !.vector_docs = vector_docs,
                                    !.calls = @ \cup {"search_entities_by_embedding"},
                                    !.status = 200,
                                    !.results = [i \in 1..Len(merged) |->
                                                    _doc_to_entry(merged[i])]]
    /\ UNCHANGED <<docs, entities, current, mongoUp, _client, _db, driver, gnodes, gedges, synced, req,
                   resp, chat, svg, now>>

\* the call the handler is waiting for raises: except MitreDBError / Exception
SearchCallFails ==
    /\ search.pc \in {"embed", "text", "text only", "vector"}
    /\ search' = SearchFailsWith(search,
                     CASE search.pc = "embed" -> "embed_text"
                       [] search.pc = "vector" -> "search_entities_by_embedding"
                       [] OTHER -> "search_entities_by_text")
    /\ UNCHANGED <<docs, entities, current, mongoUp, _client, _db, driver, gnodes, gedges, synced, req,
                   resp, chat, svg, now>>

\* SpecSearch: search requests one after the other
NextSearch ==
    \/ \E q \in Queries, top_k \in 1..MaxTopK : SearchEntities(q, top_k)
    \/ \E embedding \in BOOLEAN : SearchEmbed(embedding)
    \/ \E text_docs \in SeqsUpTo(SearchHits, MaxTextHits) : SearchText(text_docs)
    \/ \E vector_docs \in SeqsUpTo(SearchHits, MaxVectorHits) : SearchVector(vector_docs)
    \/ SearchCallFails

SpecSearch == Init /\ [][NextSearch]_vars

(***************************************************************************)
(* Chat: chat() with get_relevant_mitre_context for the last user message. *)
(***************************************************************************)
\* POST /api/chat/: the last user message drives the retrieval; a blank one
\* skips it
ChatRequest(utterance) ==
    /\ chat.pc \in {"idle", "done"}
    /\ chat' = [IdleChat EXCEPT !.utterance = utterance,
                                !.pc = IF strip(utterance) = "" THEN "llm" ELSE "embed"]
    /\ UNCHANGED <<docs, entities, current, mongoUp, _client, _db, driver, gnodes, gedges, synced, req,
                   resp, search, svg, now>>

\* variant: the exception of the failed call leaves get_relevant_mitre_context
\* and chat, and the endpoint answers 503
OnRagFailureRaises(c, call) ==
    [c EXCEPT !.pc = "done", !.calls = @ \cup {call}, !.failed = call, !.status = 503]

\* get_relevant_mitre_context: except MitreDBError / except Exception: return ""
OnRagFailure(c, call) ==
    [c EXCEPT !.pc = "llm", !.calls = @ \cup {call}, !.failed = call, !.rag_context = <<>>]

\* embedding = await embed_text(query); if not embedding: return ""
RagEmbed(embedding) ==
    /\ chat.pc = "embed"
    /\ chat' = [chat EXCEPT !.pc = IF embedding THEN "vector" ELSE "llm",
                             !.calls = @ \cup {"embed_text"}]
    /\ UNCHANGED <<docs, entities, current, mongoUp, _client, _db, driver, gnodes, gedges, synced, req,
                   resp, search, svg, now>>

\* entities = await search_entities_by_embedding(embedding, top_k=top_k);
\* return format_entities_as_context(entities)
RagVectorSearch(found) ==
    /\ chat.pc = "vector"
    /\ chat' = [chat EXCEPT !.pc = "llm",
                             !.calls = @ \cup {"search_entities_by_embedding"},
                             !.rag_context = format_entities_as_context(found)]
    /\ UNCHANGED <<docs, entities, current, mongoUp, _client, _db, driver, gnodes, gedges, synced, req,
                   resp, search, svg, now>>

\* the embedding call or the vector search raises
RagCallFails ==
    /\ chat.pc \in {"embed", "vector"}
    /\ chat' = OnRagFailure(chat, IF chat.pc = "embed" THEN "embed_text"
                                   ELSE "search_entities_by_embedding")
    /\ UNCHANGED <<docs, entities, current, mongoUp, _client, _db, driver, gnodes, gedges, synced, req,
                   resp, search, svg, now>>

\* the system block gets the context when there is one; llm.ainvoke answers
LlmReply ==
    /\ chat.pc = "llm"
    /\ chat' = [chat EXCEPT !.pc = "done", !.llm = "ok", !.status = 200,
                             !.system_content =
                                 IF Len(chat.rag_context) # 0
                                 THEN <<"Relevant entities:\n">> \o chat.rag_context
                                 ELSE None]
    /\ UNCHANGED <<docs, entities, current, mongoUp, _client, _db, driver, gnodes, gedges, synced, req,
                   resp, search, svg, now>>

\* llm.ainvoke raises: RuntimeError, 503
LlmFails ==
    /\ chat.pc = "llm"
    /\ chat' = [chat EXCEPT !.pc = "done", !.llm = "failed", !.status = 503]
    /\ UNCHANGED <<docs, entities, current, mongoUp, _client, _db, driver, gnodes, gedges, synced, req,
                   resp, search, svg, now>>

\* RAG_TOP_K = int(os.environ.get("RAG_TOP_K", "5"))
RAG_TOP_K == 5

\* the $project stage of the vector search: _id, type, name, id (and
\* x_mitre_shortname, which no entity of the model has) and the score
ProjectHit(doc, _score) ==
    [_id |-> doc._id, type |-> doc.fields["type"], name |-> doc.fields["name"],
     id |-> doc.fields["id"], _score |-> _score]

\* {"$limit": n}, and to_list(length=n)
Limit(s, n) == SubSeq(s, 1, IF Len(s) < n THEN Len(s) ELSE n)

\* search_limit = max(top_k * 10, 50)
search_limit(top_k) == IF top_k * 10 > 50 THEN top_k * 10 ELSE 50

\* the documents of the cache that the vector index holds: those with an
\* embedding
Indexed == {k \in DOMAIN entities : entities[k].embedding # <<>>}

\* the orders in which $vectorSearch can rank them, nearest first: the model
\* leaves the similarity of a query vector and an embedding open
Rankings ==
    {l \in [1..Cardinality(Indexed) -> Indexed] :
        \A i, j \in 1..Cardinality(Indexed) : i # j => l[i] # l[j]}

\* variant: the pipeline without its $match stage
VectorPipelineNoMatch(ranking, top_k) ==
    LET fetched == Limit(ranking, search_limit(top_k))
        limited == Limit(fetched, top_k)
    IN  [i \in 1..Len(limited) |-> ProjectHit(entities[limited[i]], 1)]

\* the pipeline on a ranking of the _ids: $vectorSearch with limit
\* search_limit, $match type != relationship, $limit top_k, $project
VectorPipeline(ranking, top_k) ==
    LET NoRelationship(k) == entities[k].fields["type"] # "relationship"
        fetched == Limit(ranking, search_limit(top_k))
        matched == SelectSeq(fetched, NoRelationship)
        limited == Limit(matched, top_k)
    IN  [i \in 1..Len(limited) |-> ProjectHit(entities[limited[i]], 1)]

\* search_entities_by_embedding(query_embedding, top_k) when the store ranks
\* the cache as ranking: no query for an empty vector or a top_k <= 0
search_entities_by_embedding_on(query_embedding, top_k, ranking) ==
    IF query_embedding = <<>> \/ top_k <= 0
    THEN [queried |-> FALSE, docs |-> <<>>]
    ELSE [queried |-> TRUE, docs |-> Limit(VectorPipeline(ranking, top_k), top_k)]

\* search_entities_by_embedding(query_embedding, top_k) on the cache for a
\* query vector that is not empty: what it can return
search_entities_by_embedding(top_k) ==
    {search_entities_by_embedding_on(<<"vec">>, top_k, ranking).docs : ranking \in Rankings}

\* the stores after one create of version "1.0" on a backend without Neo4j
InitRag ==
    /\ now = 0
    /\ \E content \in RagBundles :
          /\ docs = replace_one(EmptyCollection, "1.0",
                                BundleDocument("1.0", content, MitreMetadata("1.0", content)))
          /\ entities = insert_many(EmptyCollection,
                                    _entity_docs_with_embeddings(content)).coll
    /\ current = "1.0"
    /\ mongoUp = TRUE
    /\ _client = "client"
    /\ _db = "db"
    /\ driver = FALSE
    /\ gnodes = EmptyCollection
    /\ gedges = EmptyBag
    /\ synced = [nodes |-> EmptyCollection, edges |-> EmptyBag]
    /\ req = [p \in Procs |-> IdleReq]
    /\ resp = NoResp
    /\ search = IdleSearch
    /\ chat = IdleChat
    /\ svg = NoResp

\* SpecRag: chat requests one after the other, the retrieval reading the
\* latest-entities cache
NextRag ==
    \/ \E utterance \in Queries : ChatRequest(utterance)
    \/ \E embedding \in BOOLEAN : RagEmbed(embedding)
    \/ \E found \in search_entities_by_embedding(RAG_TOP_K) : RagVectorSearch(found)
    \/ RagCallFails
    \/ LlmReply
    \/ LlmFails

SpecRag == InitRag /\ [][NextRag]_vars

\* SpecChat: chat requests one after the other
NextChat ==
    \/ \E utterance \in Queries : ChatRequest(utterance)
    \/ \E embedding \in BOOLEAN : RagEmbed(embedding)
    \/ \E found \in SeqsUpTo(SearchHits, MaxVectorHits) : RagVectorSearch(found)
    \/ RagCallFails
    \/ LlmReply
    \/ LlmFails

SpecChat == Init /\ [][NextChat]_vars

\* every call of _merge_vector_and_text with top_k >= 1
InitMerge ==
    /\ docs = EmptyCollection
    /\ entities = EmptyCollection
    /\ current = None
    /\ mongoUp = TRUE
    /\ _client = "client"
    /\ _db = "db"
    /\ driver = TRUE
    /\ gnodes = EmptyCollection
    /\ gedges = EmptyBag
    /\ synced = [nodes |-> EmptyCollection, edges |-> EmptyBag]
    /\ req = [p \in Procs |-> IdleReq]
    /\ resp = NoResp
    /\ chat = IdleChat
    /\ svg = NoResp
    /\ now = 0
    /\ \E text_docs \in SeqsUpTo(Hits, MaxTextHits),
          vector_docs \in SeqsUpTo(Hits, MaxVectorHits),
          top_k \in 1..MaxTopK :
            search = [IdleSearch EXCEPT !.pc = "merge", !.q = "t1", !.top_k = top_k,
                                        !.text_docs = text_docs,
                                        !.vector_docs = vector_docs]

NextMerge == MergeResults

SpecMerge == InitMerge /\ [][NextMerge]_vars

(***************************************************************************)
(* Specifications.                                                         *)
(***************************************************************************)
\* one further step of the call that p runs
Step(p) ==
    \/ DeleteEntities(p)
    \/ EmbedEntities(p)
    \/ EmbeddingFails(p)
    \/ InsertEntities(p)
    \/ SetCurrent(p)
    \/ SyncAfterWrite(p)
    \/ CreateNode(p)
    \/ CreateRelationship(p)
    \/ CreateFails(p)
    \/ Respond(p)

\* one further step of the write that p runs, MongoDB and the embedding
\* provider answering
WriteStep(p) ==
    \/ DeleteEntities(p)
    \/ EmbedEntities(p)
    \/ InsertEntities(p)
    \/ SetCurrent(p)
    \/ SyncAfterWrite(p)
    \/ CreateNode(p)
    \/ CreateRelationship(p)
    \/ CreateFails(p)

\* Spec: writes one after the other, each able to fail at every step
Next ==
    \/ \E v \in Versions, content \in WriteBundles : InsertDocument(1, v, content)
    \/ \E v \in Versions, content \in WriteBundles : ReplaceDocument(1, v, content)
    \/ Step(1)
    \/ MongoGoesDown
    \/ MongoComesUp

Spec == Init /\ [][Next]_vars

\* one further step of the sync that p runs
SyncStep(p) ==
    \/ CreateNode(p)
    \/ CreateRelationship(p)
    \/ CreateFails(p)
    \/ Respond(p)

\* SpecGraph: store_mitre_bundle called again and again, on every bundle of
\* at most MaxObjs objects
NextGraph ==
    \/ \E content \in GraphBundles : StoreMitreBundle(1, content)
    \/ StoreMitreBundleAgain(1)
    \/ SyncStep(1)

SpecGraph == Init /\ [][NextGraph]_vars

\* the backend is stopped and started between two requests: close_neo4j, then
\* init_neo4j, which sets the driver when Neo4j can be reached and leaves it
\* None when not; the stores keep their contents
RestartNeo4j ==
    /\ \A p \in Procs : Free(p)
    /\ driver' \in BOOLEAN
    /\ driver' # driver
    /\ UNCHANGED <<docs, entities, current, mongoUp, _client, _db, gnodes, gedges, synced, req, resp,
                   svcVars>>

\* the clock advances
Tick ==
    /\ now < MaxClock
    /\ now' = now + 1
    /\ UNCHANGED <<docs, entities, current, mongoUp, _client, _db, driver, gnodes, gedges, synced, req, resp,
                   search, chat, svg>>

\* SpecVersions: writes one after the other while the clock advances,
\* MongoDB and the embedding provider answering
NextVersions ==
    \/ \E v \in Versions, content \in VersionBundles : InsertDocument(1, v, content)
    \/ \E v \in Versions, content \in VersionBundles : ReplaceDocument(1, v, content)
    \/ WriteStep(1)
    \/ Respond(1)
    \/ Tick

SpecVersions == Init /\ [][NextVersions]_vars

\* SpecConverge: writes one after the other, MongoDB and the embedding
\* provider answering, while Neo4j is at times unreachable at start-up
\* (rebuilds skipped) and at times fails during a rebuild
NextConverge ==
    \/ \E v \in Versions, content \in WriteBundles : InsertDocument(1, v, content)
    \/ \E v \in Versions, content \in WriteBundles : ReplaceDocument(1, v, content)
    \/ WriteStep(1)
    \/ Respond(1)
    \/ RestartNeo4j

SpecConverge == Init /\ [][NextConverge]_vars

\* SpecCreateRace: two request tasks, each running one create on the empty
\* store, their awaits interleaved in every way; MongoDB and the embedding
\* provider answer, the entities of a bundle have distinct ids
NextCreateRace ==
    \/ \E p \in Procs, v \in Versions, content \in RaceBundles : InsertDocument(p, v, content)
    \/ \E p \in Procs : WriteStep(p)

SpecCreateRace == Init /\ [][NextCreateRace]_vars

\* SpecUntyped: store_mitre_bundle called on bundles with relationships that
\* have no relationship_type
NextUntyped ==
    \/ \E content \in UntypedBundles : StoreMitreBundle(1, content)
    \/ SyncStep(1)

SpecUntyped == Init /\ [][NextUntyped]_vars

\* SpecRead: readers of the graph between the syncs
NextRead ==
    \/ \E content \in ReadBundles : StoreMitreBundle(1, content)
    \/ SyncStep(1)
    \/ \E stix_id \in QueryIds : GetAdjacent(stix_id)
    \/ \E stix_id \in QueryIds : GetAdjacentFails(stix_id)
    \/ \E stix_id \in QueryIds : GetSvg(stix_id)

SpecRead == Init /\ [][NextRead]_vars

(***************************************************************************)
(* What the stores are expected to hold for a bundle.                      *)
(***************************************************************************)
\* the entities of the latest-entities cache
CacheEntities == {model_validate(entities[k].fields) : k \in DOMAIN entities}

\* the entities of the bundle stored under the version the pointer names
CurrentEntities ==
    IF get_mitre_content.found THEN Range(get_mitre_content.content.objects) ELSE {}

\* a write of p has returned success
WriteSucceeded(p) ==
    /\ req[p].pc = "done"
    /\ req[p].op \in {"create", "replace"}
    /\ req[p].result = "ok"

\* the ids of the non-relationship entities of a bundle
NodeIds(content) == {o.id : o \in Range(NodeObjects(content))}

\* the nodes a bundle projects to: one per label and id, with the properties
\* of the entities of that label and id (for each property the last one given)
ProjectedNodes(content) ==
    LET objs == NodeObjects(content)
        keyOf(i) == NodeKey(_stix_type_to_label(objs[i].type), objs[i].id)
        propsOf(i) == _node_properties(objs[i])
        idx(key) == {i \in 1..Len(objs) : keyOf(i) = key}
        last(key, k) == CHOOSE i \in idx(key) :
                            /\ k \in DOMAIN propsOf(i)
                            /\ \A j \in idx(key) : k \in DOMAIN propsOf(j) => j <= i
    IN  [key \in {keyOf(i) : i \in 1..Len(objs)} |->
            [k \in UNION {DOMAIN propsOf(i) : i \in idx(key)} |-> propsOf(last(key, k))[k]]]

\* the edges a bundle projects to: one per relationship entity that names a
\* type and whose source and target are nodes of the bundle
ProjectedEdges(content) ==
    LET rels == RelObjects(content)
        nodes == ProjectedNodes(content)
        edgesOf(i) ==
            IF \/ rels[i].source_ref \in {None, ""}
               \/ rels[i].target_ref \in {None, ""}
               \/ rels[i].relationship_type \in {None, ""}
            THEN {}
            ELSE {[src |-> a, tgt |-> b,
                   type |-> _relationship_type_to_neo4j(rels[i].relationship_type),
                   stix_id |-> rels[i].id] :
                      a \in {k \in DOMAIN nodes : k[2] = rels[i].source_ref},
                      b \in {k \in DOMAIN nodes : k[2] = rels[i].target_ref}}
    IN  [e \in UNION {edgesOf(i) : i \in 1..Len(rels)} |->
            Cardinality({i \in 1..Len(rels) : e \in edgesOf(i)})]

(***************************************************************************)
(* C1.  createBundle(v, B) on a version that already has a document fails  *)
(* with DuplicateVersion (409 at the API), whatever B is, and stores        *)
(* nothing; MongoDB answering is the premise (a store that does not answer  *)
(* gives the store error instead).                                          *)
(***************************************************************************)
C1_DuplicateVersion ==
    [][\A p \in Procs :
          (/\ Free(p)
           /\ req'[p].op = "create"
           /\ req'[p].v \in DOMAIN docs)
          => /\ req'[p].pc = "done"
             /\ req'[p].result = IF mongoUp THEN "DuplicateVersion" ELSE "MitreDBError"
             /\ mongoUp => put_mitre(req'[p].result) = 409
             /\ docs' = docs]_vars

\* a create of a bundle other than the stored one has been rejected
C1_Witness ==
    /\ req[1].pc = "done" /\ req[1].op = "create"
    /\ req[1].result = "DuplicateVersion"
    /\ get_mitre_content_by_version(req[1].v).found
    /\ get_mitre_content_by_version(req[1].v).content # req[1].content

(***************************************************************************)
(* C2.  After a successful createBundle or replaceBundle of version v,     *)
(* getCurrentVersion returns v, also when the replace targets a version    *)
(* that was not the current one.                                           *)
(***************************************************************************)
C2_PointerFollowsWrite ==
    \A p \in Procs : WriteSucceeded(p) => get_mitre_version = req[p].v

\* a replace has succeeded while another version is stored as well
C2_Witness ==
    /\ WriteSucceeded(1) /\ req[1].op = "replace"
    /\ get_mitre_version = req[1].v
    /\ \E w \in DOMAIN docs : w # req[1].v

(***************************************************************************)
(* C3.  As claimed: whenever no write is running (after any sequence of    *)
(* writes, successful or failed), the entities of the cache are exactly    *)
(* the entities of the bundle stored under the current version.            *)
(***************************************************************************)
C3_Original ==
    (\A p \in Procs : req[p].pc \in {"idle", "done"}) => CacheEntities = CurrentEntities

\* C3, amended: after every write that succeeded the entities of the cache
\* are exactly the entities of the bundle stored under the current version.
C3_CacheAfterSuccess ==
    \A p \in Procs : WriteSucceeded(p) => CacheEntities = CurrentEntities

\* a write has succeeded and replaced the cache of another stored version
C3_Witness ==
    /\ WriteSucceeded(1)
    /\ DOMAIN entities # {}
    /\ \E w \in DOMAIN docs : w # req[1].v /\ docs[w].objects # docs[req[1].v].objects

(***************************************************************************)
(* C4.  As claimed: whenever no rebuild is running, the graph is the graph *)
(* that the most recent rebuild that ran to its end left, so that a        *)
(* rebuild that fails part-way changes nothing.                            *)
(***************************************************************************)
C4_Original ==
    (\A p \in Procs : req[p].pc \in {"idle", "done"})
        => gnodes = synced.nodes /\ gedges = synced.edges

\* a store_mitre_bundle of p has run to its end
SyncSucceeded(p) == req[p].pc = "done" /\ req[p].sync = "synced"

\* C4, amended: when a rebuild has run to its end, the graph holds exactly the
\* nodes and edges projected from its bundle, nothing of an earlier bundle.
C4_GraphAfterSync ==
    \A p \in Procs :
        SyncSucceeded(p) => /\ gnodes = ProjectedNodes(req[p].content)
                            /\ gedges = ProjectedEdges(req[p].content)

\* a rebuild of a bundle with an edge has run to its end
C4_Witness ==
    /\ SyncSucceeded(1)
    /\ BagToSet(gedges) # {}
    /\ Cardinality(DOMAIN gnodes) = 2

(***************************************************************************)
(* C5.  Round trip: after a successful write of bundle B under v,          *)
(* getContent(v) and getContent() return the objects of B, in order and    *)
(* with their field values, relationships included, and B's id and         *)
(* spec_version.                                                           *)
(***************************************************************************)
C5_RoundTrip ==
    \A p \in Procs :
        WriteSucceeded(p) =>
            LET got == get_mitre_content_by_version(req[p].v)
            IN  /\ got.found
                /\ got.content.objects = req[p].content.objects
                /\ got.content.id = req[p].content.id
                /\ got.content.spec_version = req[p].content.spec_version
                /\ got.content = req[p].content
                /\ get_mitre_content = got

\* a bundle with a relationship and no bundle id has been written
C5_Witness ==
    /\ WriteSucceeded(1)
    /\ req[1].content.id = None
    /\ Len(RelObjects(get_mitre_content.content)) = 2
    /\ Len(get_mitre_content.content.objects) = 3

(***************************************************************************)
(* C6.  As claimed: getContent(v) returns the bundle of the most recent    *)
(* successful write to v.  A create that got as far as the embedding call  *)
(* found no document under v, and fails: v has had no successful write, so *)
(* getContent(v) would be absent.                                          *)
(***************************************************************************)
C6_Original ==
    \A p \in Procs :
        (req[p].pc = "done" /\ req[p].op = "create" /\ req[p].result = "EmbeddingError")
            => ~get_mitre_content_by_version(req[p].v).found

\* C6, amended: replaceBundle(v, B2) stores B2 under v whether or not v has a
\* document, and the content of a version changes only in the document step
\* of a write to it, to the bundle of that write (also when the write fails
\* later on).
C6_ReplaceUpserts ==
    [][/\ \A p \in Procs :
            (Free(p) /\ req'[p].op = "replace" /\ mongoUp)
                => /\ req'[p].pc = "delete"
                   /\ ContentOf(docs', req'[p].v).found
                   /\ ContentOf(docs', req'[p].v).content = req'[p].content
       /\ \A v \in Versions :
            ContentOf(docs', v) # ContentOf(docs, v)
                => \E p \in Procs :
                      /\ Free(p) /\ req'[p].pc = "delete" /\ req'[p].v = v
                      /\ ContentOf(docs', v).content = req'[p].content]_vars

\* a replace has overwritten the document of a version with another bundle and
\* has succeeded
C6_Witness ==
    /\ WriteSucceeded(1) /\ req[1].op = "replace"
    /\ get_mitre_content_by_version(req[1].v).content = req[1].content
    /\ req[1].content.objects # <<>>
    /\ Cardinality(DOMAIN docs) = 1

(***************************************************************************)
(* C7.  A write whose three document-store steps succeeded returns success *)
(* whatever the graph rebuild does (skipped, or failing at the clear, a    *)
(* node or an edge), and the document store is as after a rebuild that     *)
(* succeeded: the bundle under v, its entities in the cache, the pointer   *)
(* at v.                                                                   *)
(***************************************************************************)
C7_SyncNeverFailsWrite ==
    \A p \in Procs :
        (req[p].op \in {"create", "replace"} /\ req[p].pc \in {"graph", "nodes", "rels", "done"}
            /\ (req[p].pc = "done" => req[p].sync # "none"))
        => /\ req[p].pc = "done" => /\ req[p].result = "ok"
                                    /\ put_mitre(req[p].result) = 201
                                    /\ put_mitre_by_version(req[p].result) = 200
           /\ get_mitre_content_by_version(req[p].v).content = req[p].content
           /\ entities = insert_many(EmptyCollection,
                                      _entity_docs_with_embeddings(req[p].content)).coll
           /\ current = req[p].v

\* a write has returned although its rebuild failed after creating nodes
C7_Witness ==
    /\ req[1].pc = "done" /\ req[1].op \in {"create", "replace"}
    /\ req[1].sync = "failed"
    /\ DOMAIN gnodes # {}
    /\ gedges = EmptyBag

(***************************************************************************)
(* C8.  As claimed: with the graph store unreachable (no driver), the      *)
(* answer of getAdjacent differs from the answer it gives for an id that   *)
(* the reachable graph does not hold.                                      *)
(***************************************************************************)
\* the answer for an id that the reachable graph does not hold
NoNodeResponse(stix_id) ==
    [status |-> 404, stix_id |-> stix_id,
     detail |-> "No node found with stix_id or Neo4j is unavailable."]

Dangling(content, rel) ==
    rel.source_ref \notin NodeIds(content) \/ rel.target_ref \notin NodeIds(content)

C9_DanglingRelationship ==
    \A p \in Procs :
        (WriteSucceeded(p) /\ req[p].sync = "synced") =>
            \A rel \in Range(RelObjects(req[p].content)) :
                Dangling(req[p].content, rel) =>
                    /\ \A e \in BagToSet(gedges) : e.stix_id # rel.id
                    /\ rel \in Range(get_mitre_content_by_version(req[p].v).content.objects)
                    /\ rel \in Range(get_mitre_content.content.objects)

\* a bundle was synced that holds a relationship whose target is the id of
\* another relationship of the bundle
C9_Witness ==
    /\ WriteSucceeded(1) /\ req[1].sync = "synced"
    /\ \E rel \in Range(RelObjects(req[1].content)) :
          /\ rel.source_ref \in NodeIds(req[1].content)
          /\ rel.target_ref \in by_id(req[1].content) \ NodeIds(req[1].content)

(***************************************************************************)
(* C10.  Idempotence: when store_mitre_bundle(B) has run to its end and is *)
(* run once more, the nodes, the edges and the answer of getAdjacent for   *)
(* every id are those the first run left.                                  *)
(***************************************************************************)
C10_RebuildIdempotent ==
    [][\A p \in Procs :
          (/\ req'[p] # req[p]
           /\ req'[p].op = "resync" /\ req'[p].pc = "done" /\ req'[p].sync = "synced")
          => /\ gnodes' = synced.nodes
             /\ gedges' = synced.edges
             /\ \A stix_id \in QueryIds \cup {"r"} :
                   Adjacent(gnodes', gedges', stix_id)
                       = Adjacent(synced.nodes, synced.edges, stix_id)]_vars

\* the second run of a bundle with an edge has run to its end
C10_Witness ==
    /\ req[1].op = "resync" /\ req[1].pc = "done" /\ req[1].sync = "synced"
    /\ BagToSet(gedges) # {}
    /\ \E result \in Adjacent(gnodes, gedges, "a") : result.found

(***************************************************************************)
(* C11.  Adjacency direction: for every edge r of the graph from a node A  *)
(* to a node B with another stix_id, every answer of getAdjacent(A) holds  *)
(* an entry for r with direction "outgoing" and node B, and every answer   *)
(* of getAdjacent(B) an entry for r with direction "incoming" and node A.  *)
(***************************************************************************)
HasEntry(result, e, direction, neighbour) ==
    /\ result.found
    /\ [relationship |-> [type |-> e.type, stix_id |-> e.stix_id],
        direction |-> direction,
        node |-> neighbour] \in DOMAIN result.adjacent

\* C11: every edge is "outgoing" in the answers for its source and "incoming"
\* in the answers for its target
C11_AdjacencyDirection ==
    driver =>
        \A e \in BagToSet(gedges) :
            e.src[2] # e.tgt[2] =>
                /\ \A result \in get_adjacent(e.src[2]) :
                      HasEntry(result, e, "outgoing", gnodes[e.tgt])
                /\ \A result \in get_adjacent(e.tgt[2]) :
                      HasEntry(result, e, "incoming", gnodes[e.src])

\* a reader got the node "a" of a graph in which "a" has an edge to "b" and an
\* edge from "b", and the answer is still the one the graph gives
C11_Witness ==
    /\ resp.status = 200 /\ resp.stix_id = "a"
    /\ resp \in get_adjacent_endpoint("a")
    /\ \E x, y \in DOMAIN resp.body.adjacent :
          /\ x.direction = "outgoing" /\ x.node.stix_id = "b"
          /\ y.direction = "incoming" /\ y.node.stix_id = "b"

(***************************************************************************)
(* C12.  Merge: for all lists of text hits and vector hits and every top_k *)
(* from 1 on, _merge_vector_and_text returns the first top_k elements of   *)
(* the text hits followed by the vector hits, keeping the first occurrence *)
(* of each entity id (a document that carries no id, absent or empty, is   *)
(* no hit of any entity and is left out); so no id comes twice, the length *)
(* never exceeds top_k, and the text hits come first in their own order.   *)
(***************************************************************************)
RECURSIVE FirstOccurrences(_)
\* the hits of s whose id occurs at no earlier position
FirstOccurrences(s) ==
    IF Len(s) = 0 THEN <<>>
    ELSE LET front == SubSeq(s, 1, Len(s) - 1)
             last == s[Len(s)]
         IN  IF \E i \in 1..Len(front) : EntityId(front[i]) = EntityId(last)
             THEN FirstOccurrences(front)
             ELSE Append(FirstOccurrences(front), last)

Take(s, n) == SubSeq(s, 1, IF Len(s) < n THEN Len(s) ELSE n)

HasId(d) == Truthy(EntityId(d))

\* C12: the merge is the first top_k of the text hits then the vector hits,
\* first occurrence of each id only
C12_Merge ==
    search.pc = "done" =>
        LET text == SelectSeq(search.text_docs, HasId)
            vector == SelectSeq(search.vector_docs, HasId)
            merged == search.results
        IN  /\ merged = Take(FirstOccurrences(text \o vector), search.top_k)
            /\ Len(merged) <= search.top_k
            /\ \A i, j \in 1..Len(merged) : i # j => EntityId(merged[i]) # EntityId(merged[j])
            /\ merged = Take(FirstOccurrences(text), search.top_k)
                          \o SubSeq(merged, Len(FirstOccurrences(text)) + 1,
                                    Len(merged))

\* the example: text [A, B], vector [B, C, D], top_k = 3 has given [A, B, C]
C12_Witness ==
    /\ search.pc = "done" /\ search.top_k = 3
    /\ search.text_docs = <<Hit("A", "A", 1), Hit("B", "B", 1)>>
    /\ search.vector_docs = <<Hit("B", "B", 2), Hit("C", "C", 1), Hit(None, "D", 1)>>
    /\ search.results = <<Hit("A", "A", 1), Hit("B", "B", 1), Hit("C", "C", 1)>>

(***************************************************************************)
(* C13.  Two creates of the same version that run concurrently on a store  *)
(* without that version: under every interleaving at most one gets past    *)
(* the insert of the document, and when both have returned exactly one has *)
(* succeeded, the other has failed with DuplicateVersion (409), and the    *)
(* document under the version is the one of the call that succeeded.       *)
(***************************************************************************)
PastInsert(p) ==
    req[p].op = "create" /\ req[p].pc # "idle" /\ req[p].result # "DuplicateVersion"

WriteStatus(r) ==
    IF r.op = "create" THEN put_mitre(r.result) ELSE put_mitre_by_version(r.result)

C14_Original ==
    [][\A p \in Procs :
          (/\ req[p].op \in {"create", "replace"}
           /\ req[p].pc \in {"delete", "embed", "insert", "pointer"}
           /\ req'[p].pc = "done")
          => /\ docs' = docs
             /\ ContentOf(docs', req[p].v).found
             /\ ContentOf(docs', req[p].v).content = req[p].content
             /\ req'[p].result = "MitreDBError"
             /\ WriteStatus(req'[p]) = 503]_vars

(***************************************************************************)
(* C15.  Re-convergence: whatever the graph holds (stale after skipped     *)
(* rebuilds, cleared or partial after failed ones), when the rebuild of a  *)
(* write runs to its end the graph is the projection of the bundle that    *)
(* the current pointer names.                                              *)
(***************************************************************************)
C15_Reconverges ==
    [][\A p \in Procs :
          (/\ req[p].op \in {"create", "replace"}
           /\ req[p].pc \in {"graph", "nodes", "rels"}
           /\ req'[p].pc = "done" /\ req'[p].sync = "synced")
          => /\ get_mitre_version' # None
             /\ ContentOf(docs', get_mitre_version').found
             /\ gnodes' = ProjectedNodes(ContentOf(docs', get_mitre_version').content)
             /\ gedges' = ProjectedEdges(ContentOf(docs', get_mitre_version').content)]_vars

\* a rebuild has completed for a write of the one-node bundle, while the store
\* holds another version whose bundle projects to a different graph
C15_Witness ==
    /\ WriteSucceeded(1) /\ req[1].sync = "synced"
    /\ gnodes = ProjectedNodes(get_mitre_content.content)
    /\ gedges = ProjectedEdges(get_mitre_content.content)
    /\ \E v \in DOMAIN docs :
          /\ v # current
          /\ ProjectedEdges(get_mitre_content_by_version(v).content) # EmptyBag
          /\ ProjectedNodes(get_mitre_content_by_version(v).content) # gnodes

(***************************************************************************)
(* C17.  A search whose query is empty or only whitespace is rejected with *)
(* a client error (422 by the parameter validation, 400 by the handler)    *)
(* before any call of the embedding provider, the text search or the       *)
(* vector search is issued.                                                *)
(***************************************************************************)
C17_BlankQueryRejected ==
    (search.pc # "idle" /\ strip(search.q) = "")
        => /\ search.pc = "done"
           /\ search.status \in {400, 422}
           /\ search.calls = {}
           /\ search.results = <<>>

\* a query of two blanks has passed the parameter validation and has been
\* rejected by the handler
C17_Witness ==
    /\ search.pc = "done" /\ search.q = "  " /\ search.status = 400
    /\ search.calls = {}

(***************************************************************************)
(* C16.  RAG context assembly never propagates a failure: when the         *)
(* embedding call or the vector search raises, the context is the empty    *)
(* string and the chat goes on to the language model; its reply is given   *)
(* without retrieval context, and only a failure of the language model     *)
(* itself fails the request.                                               *)
(***************************************************************************)
C16_RagNeverFails ==
    chat.failed # "none"
        => /\ chat.rag_context = <<>>
           /\ chat.pc \in {"llm", "done"}
           /\ chat.pc = "done"
                 => /\ chat.llm \in {"ok", "failed"}
                    /\ chat.llm = "ok" => chat.status = 200 /\ chat.system_content = None
                    /\ chat.status # 200 => chat.llm = "failed"

\* the vector search has raised and the chat has answered
C16_Witness ==
    /\ chat.pc = "done" /\ chat.failed = "search_entities_by_embedding"
    /\ chat.status = 200 /\ chat.llm = "ok"
    /\ chat.calls = {"embed_text", "search_entities_by_embedding"}

(***************************************************************************)
(* C18.  With the graph reachable, getEdgesTouching(entityId) returns      *)
(* exactly the edges whose source or target is entityId, each as           *)
(* (sourceNode, edge, targetNode): one record per such edge and no other.  *)
(* It returns the empty list, not absent, when the entity has no edges or  *)
(* does not exist, and absent only when the graph store is unreachable.    *)
(***************************************************************************)
EdgesTouching(stix_id) ==
    {e \in BagToSet(gedges) : e.src[2] = stix_id \/ e.tgt[2] = stix_id}

EdgesToOthers(stix_id) ==
    {e \in BagToSet(gedges) : (e.src[2] = stix_id) # (e.tgt[2] = stix_id)}

C19_AdjacentAbsentIffNoNode ==
    driver =>
        \A stix_id \in QueryIds :
            LET held == \E k \in DOMAIN gnodes : k[2] = stix_id
            IN  /\ (NotFound \in get_adjacent(stix_id)) <=> ~held
                /\ ~held => get_adjacent(stix_id) = {NotFound}
                /\ \A result \in get_adjacent(stix_id) :
                       result.found
                         => /\ result.node["stix_id"] = stix_id
                            /\ BagCardinality(result.adjacent)
                                  = SumCopies(gedges, EdgesToOthers(stix_id))
                            /\ EdgesToOthers(stix_id) = {} => result.adjacent = EmptyBag

\* a node without an edge has been answered with an empty adjacency list
C19_Witness ==
    /\ driver /\ resp.status = 200 /\ "body" \in DOMAIN resp
    /\ resp.body \in get_adjacent(resp.stix_id)
    /\ resp.body.adjacent = EmptyBag
    /\ req[1].pc = "done" /\ req[1].sync = "synced"

(***************************************************************************)
(* C20.  getCurrentVersion returns absent (404 at the API) until some      *)
(* write has completed its pointer step and never returns absent           *)
(* afterwards; and in every reachable state in which the pointer is set,   *)
(* a bundle document is stored under the version it names, so getContent   *)
(* with the version omitted is absent only when the pointer is absent.     *)
(***************************************************************************)
PointerStepCompletes(p) ==
    /\ req[p].pc = "pointer"
    /\ req'[p].pc = "graph"
    /\ get_mitre_version' = req[p].v

PointerNamesDocument ==
    /\ get_mitre_version # None => get_mitre_version \in DOMAIN docs
    /\ ~get_mitre_content.found <=> get_mitre_version = None
    /\ mongoUp => (get_mitre_version_endpoint.status = 404 <=> get_mitre_version = None)

C20_PointerOnceSet ==
    /\ get_mitre_version = None
    /\ [](PointerNamesDocument)
    /\ [][/\ get_mitre_version # None => get_mitre_version' # None
          /\ get_mitre_version' # get_mitre_version => \E p \in Procs : PointerStepCompletes(p)
         ]_vars

\* the pointer is set and a later write to another version has failed at
\* its pointer step, the store answering again
C20_Witness ==
    /\ get_mitre_version_endpoint = [status |-> 200, x_mitre_version |-> current]
    /\ get_mitre_content.found
    /\ req[1].pc = "done" /\ req[1].result = "MitreDBError"
    /\ req[1].v # current /\ req[1].v \in DOMAIN docs

(***************************************************************************)
(* C21.  listVersions returns every stored version exactly once, ordered   *)
(* by non-increasing last-modified timestamp; after any sequence of        *)
(* non-overlapping successful writes its first entry is the most recently  *)
(* written version, which is the version getCurrentVersion returns.        *)
(***************************************************************************)
\* the time a timestamp written by isoformat stands for
fromisoformat(s) ==
    (s[1] - Digit(0)) * MicrosPerSecond + (IF s[2] = DOT THEN s[3] - Digit(0) ELSE 0)

\* no write is under way, and a version is current
WritesReturned ==
    /\ \A p \in Procs : req[p].pc \in {"idle", "done"}
    /\ get_mitre_version # None

\* as stated, for a clock that is non-decreasing: two writes may read the
\* same time
C21_Original ==
    WritesReturned =>
        \A l \in list_mitre_versions : l[1].x_mitre_version = get_mitre_version

\* C21, amended: the first entry is the current version when the clock has
\* advanced between the writes, i.e. no two documents carry the same time.
C21_ListVersions ==
    /\ \A l \in list_mitre_versions :
          /\ Len(l) = Cardinality(DOMAIN docs)
          /\ \A v \in DOMAIN docs :
                 Cardinality({i \in DOMAIN l : l[i].x_mitre_version = v}) = 1
          /\ \A i, j \in DOMAIN l :
                 i < j => fromisoformat(l[i].metadata.last_modified)
                            >= fromisoformat(l[j].metadata.last_modified)
    /\ list_mitre_versions # {}
    /\ (/\ WritesReturned
        /\ \A v, w \in DOMAIN docs :
              v # w => docs[v].metadata.last_modified # docs[w].metadata.last_modified)
         => \A l \in list_mitre_versions : l[1].x_mitre_version = get_mitre_version

\* an older version has been replaced at a later time and leads the list
C21_Witness ==
    /\ req[1].pc = "done" /\ req[1].op = "replace" /\ req[1].result = "ok"
    /\ req[1].v = "1.0"
    /\ DOMAIN docs = {"1.0", "2.0"}
    /\ fromisoformat(docs["1.0"].metadata.last_modified) = MicrosPerSecond + 1
    /\ fromisoformat(docs["2.0"].metadata.last_modified) = MicrosPerSecond
    /\ \A l \in list_mitre_versions : l[1].x_mitre_version = "1.0" /\ Len(l) = 2

(***************************************************************************)
(* C22.  search(query, top_k) returns at most top_k results with pairwise  *)
(* distinct entity ids for every non-blank query and every top_k, both     *)
(* when the query embedding is non-empty (text hits merged with vector     *)
(* hits) and when it is empty (text hits returned alone, the vector search *)
(* skipped).                                                               *)
(***************************************************************************)
C22_SearchBounds ==
    (search.pc = "done" /\ search.status = 200) =>
        /\ strip(search.q) # ""
        /\ Len(search.results) <= search.top_k
        /\ \A i, j \in DOMAIN search.results :
               i # j => search.results[i].id # search.results[j].id
        /\ "search_entities_by_embedding" \notin search.calls
             => search.results = [i \in DOMAIN search.text_docs |->
                                     _doc_to_entry(search.text_docs[i])]

\* an answer of top_k results merged from text hits and vector hits that
\* share an entity
C22_Witness ==
    /\ search.pc = "done" /\ search.status = 200
    /\ "search_entities_by_embedding" \in search.calls
    /\ Len(search.results) = search.top_k /\ search.top_k = 2
    /\ \E i \in DOMAIN search.text_docs, j \in DOMAIN search.vector_docs :
          search.text_docs[i]._id = search.vector_docs[j]._id
    /\ Len(search.text_docs) + Len(search.vector_docs) > search.top_k

(***************************************************************************)
(* C23.  Within every write request the steps execute in the fixed order:  *)
(* bundle document stored, then entities cache cleared and reinserted,     *)
(* then current pointer set, then graph rebuild started.  So the pointer   *)
(* is never set to v before a bundle document for v is stored, and the     *)
(* graph rebuild of a write never starts before that write's pointer step  *)
(* has succeeded.                                                          *)
(***************************************************************************)
\* the positions a request at pc can move to when its step succeeds
NextPositions(pc) ==
    CASE pc = "idle" -> {"delete"}
      [] pc = "delete" -> {"embed"}
      [] pc = "embed" -> {"insert"}
      [] pc = "insert" -> {"pointer"}
      [] pc = "pointer" -> {"graph"}
      [] pc = "graph" -> {"nodes", "rels"}
      [] pc = "nodes" -> {"nodes", "rels"}
      [] pc = "rels" -> {"rels"}
      [] OTHER -> {"idle"}

C23_StepOrder ==
    [][/\ \A p \in Procs :
            LET r == req[p]
                after == req'[p]
            IN  /\ after # r =>
                      IF r.pc = "done" THEN after.pc = "idle"
                      ELSE after.pc \in NextPositions(r.pc) \cup {"done"}
                /\ (r.pc = "idle" /\ after.pc = "delete") => after.v \in DOMAIN docs'
                /\ (r.pc = "pointer" /\ after.pc = "graph")
                      => get_mitre_version' = r.v /\ r.v \in DOMAIN docs
       /\ docs' # docs => \E p \in Procs : req[p].pc = "idle" /\ req'[p].pc = "delete"
       /\ entities' # entities => \E p \in Procs : req[p].pc \in {"delete", "insert"}
       /\ current' # current
            => \E p \in Procs : /\ req[p].pc = "pointer" /\ req'[p].pc = "graph"
                                /\ current' = req[p].v
                                /\ current' \in DOMAIN docs
       /\ (gnodes' # gnodes \/ gedges' # gedges)
            => \E p \in Procs : /\ req[p].pc \in {"graph", "nodes", "rels"}
                                /\ req'[p].pc \in {"nodes", "rels", "done"}
      ]_vars

\* a replace has stored its document, refilled the cache, set the pointer
\* and is creating the nodes of the graph
C23_Witness ==
    /\ req[1].op = "replace" /\ req[1].pc = "nodes"
    /\ current = req[1].v /\ req[1].v \in DOMAIN docs
    /\ DOMAIN entities # {} /\ DOMAIN gnodes = {}
    /\ Cardinality(DOMAIN docs) = 2

(***************************************************************************)
(* C24.  A relationship entity whose relationship_type is empty or missing *)
(* and whose source and target are both non-relationship entities of the   *)
(* bundle is materialized by rebuildGraph as an edge of the generic        *)
(* fallback relation type (RELATED_TO) carrying the relationship's id.     *)
(***************************************************************************)
Untyped(rel) == rel.relationship_type \in {None, ""}

C24_Original ==
    \A p \in Procs :
        (req[p].pc = "done" /\ req[p].sync = "synced") =>
            \A rel \in Range(RelObjects(req[p].content)) :
                (/\ Untyped(rel)
                 /\ rel.source_ref \in NodeIds(req[p].content)
                 /\ rel.target_ref \in NodeIds(req[p].content))
                    => \E e \in BagToSet(gedges) :
                          e.type = "RELATED_TO" /\ e.stix_id = rel.id

\* the rebuild of a bundle with such a relationship has run to its end:
\* the relationship has no edge, and no edge has the fallback type
C24_Witness ==
    /\ req[1].pc = "done" /\ req[1].sync = "synced"
    /\ \E rel \in Range(RelObjects(req[1].content)) :
          /\ Untyped(rel)
          /\ rel.source_ref \in NodeIds(req[1].content)
          /\ rel.target_ref \in NodeIds(req[1].content)
          /\ \A e \in BagToSet(gedges) : e.stix_id # rel.id
    /\ BagToSet(gedges) # {}
    /\ \A e \in BagToSet(gedges) : e.type # "RELATED_TO"

(***************************************************************************)
(* C25.  For every vector-search hit whose entity has a non-empty          *)
(* description in the latest-entities cache, the RAG context block         *)
(* produced for that hit contains its Description line (alongside Name,    *)
(* Type, ID and Short name when present), and blocks of different hits     *)
(* are joined by the separator.                                            *)
(***************************************************************************)
\* the context holds a line made of label and value
HasLine(context, label, value) ==
    \E i \in 1..(Len(context) - 1) : context[i] = label /\ context[i + 1] = value

\* the retrieval of the chat has returned a context
ContextBuilt ==
    /\ chat.pc \in {"llm", "done"}
    /\ chat.failed = "none"
    /\ "search_entities_by_embedding" \in chat.calls

C25_Original ==
    ContextBuilt =>
        \A k \in DOMAIN entities :
            (/\ HasLine(chat.rag_context, "ID: ", k)
             /\ Truthy(entities[k].fields["description"]))
                => HasLine(chat.rag_context, "Description: ",
                           entities[k].fields["description"])

\* two hits that both have a description in the cache: their blocks hold
\* Name, Type and ID, are joined by the separator, and no line of the
\* context is a Description line
C25_Witness ==
    /\ ContextBuilt /\ chat.pc = "done" /\ chat.status = 200
    /\ \A k \in {"a", "c"} :
          /\ k \in DOMAIN entities /\ Truthy(entities[k].fields["description"])
          /\ HasLine(chat.rag_context, "ID: ", k)
          /\ HasLine(chat.rag_context, "Name: ", entities[k].fields["name"])
          /\ HasLine(chat.rag_context, "Type: ", entities[k].fields["type"])
    /\ \E i \in DOMAIN chat.rag_context : chat.rag_context[i] = "\n\n---\n\n"
    /\ \A i \in DOMAIN chat.rag_context : chat.rag_context[i] # "Description: "

(***************************************************************************)
(* C26.  A reader is not serialized against a graph rebuild: there is a    *)
(* reachable interleaving in which getAdjacent for an entity that is       *)
(* present in both the previously synced bundle and the bundle being       *)
(* synced returns absent, or an adjacency list missing edges that both     *)
(* bundles contain, because it reads between the clear step and the        *)
(* completion of node/edge creation.  As a property of every behaviour: a  *)
(* read answered while the rebuild has cleared the graph and not yet       *)
(* created the node of such an entity is answered absent, and a read       *)
(* answered before the node loop has ended carries no edge.                *)
(***************************************************************************)
\* p rebuilds the graph, has cleared it and is in its node loop
InNodeLoop(p) == driver /\ req[p].pc = "nodes"

\* stix_id is in the graph the last completed rebuild left and in the bundle
\* p is syncing, and p has cleared the graph and not yet created its node
ClearedNotYetCreated(p, stix_id) ==
    /\ InNodeLoop(p)
    /\ \E k \in DOMAIN synced.nodes : k[2] = stix_id
    /\ stix_id \in NodeIds(req[p].content)
    /\ \A j \in 1..(req[p].i - 1) : NodeObjects(req[p].content)[j].id # stix_id

C26_ReaderSeesRebuild ==
    [][\A stix_id \in QueryIds :
          (/\ resp' # resp
           /\ resp'.stix_id = stix_id
           /\ resp'.status # 500)
             => /\ ClearedNotYetCreated(1, stix_id) => resp' = NoNodeResponse(stix_id)
                /\ (InNodeLoop(1) /\ resp'.status = 200) => resp'.body.adjacent = EmptyBag
      ]_vars

\* a reader has been answered absent for "a", which has edges in the graph
\* of the last completed rebuild and is in the bundle being synced
C26_Witness ==
    /\ ClearedNotYetCreated(1, "a")
    /\ resp = NoNodeResponse("a")
    /\ \E result \in Adjacent(synced.nodes, synced.edges, "a") :
          result.found /\ result.adjacent # EmptyBag
    /\ \E rel \in Range(RelObjects(req[1].content)) :
          rel.id \in {e.stix_id : e \in BagToSet(synced.edges)}

(***************************************************************************)
(* C27.  When two writes to different versions overlap in time and both    *)
(* have returned, the system is consistent at quiescence: the              *)
(* latest-entities cache holds exactly the entities of the bundle stored   *)
(* under the version the pointer names, and the graph (if both rebuilds    *)
(* completed) is the projection of that same bundle, with no document or   *)
(* node left over from the other write.                                    *)
(***************************************************************************)
\* the writes of the two request tasks, to different versions, have both
\* returned success
BothWritesReturned ==
    /\ WriteSucceeded(1) /\ WriteSucceeded(2)
    /\ req[1].v # req[2].v

C27_Original ==
    BothWritesReturned =>
        /\ get_mitre_content.found
        /\ CacheEntities = CurrentEntities
        /\ (req[1].sync = "synced" /\ req[2].sync = "synced")
              => /\ gnodes = ProjectedNodes(get_mitre_content.content)
                 /\ gedges = ProjectedEdges(get_mitre_content.content)

\* both writes have returned success and both rebuilds have completed: the
\* pointer names the empty bundle, and the cache and the graph hold the
\* entities of the other one
C27_Witness ==
    /\ BothWritesReturned
    /\ req[1].sync = "synced" /\ req[2].sync = "synced"
    /\ get_mitre_content.found /\ CurrentEntities = {}
    /\ CacheEntities = Range(req[1].content.objects) /\ CacheEntities # {}
    /\ gnodes = ProjectedNodes(req[1].content)
    /\ get_mitre_version = req[2].v

(***************************************************************************)
(* C28.  A createBundle rejected with DuplicateVersion changes nothing:    *)
(* the bundle document stored under that version, the stored documents of  *)
(* all other versions, the latest-entities cache, the current pointer and  *)
(* the graph are all identical before and after the rejected call.         *)
(***************************************************************************)
C28_RejectedCreate ==
    [][\A p \in Procs :
          (/\ Free(p)
           /\ req'[p].op = "create"
           /\ req'[p].result = "DuplicateVersion")
          => /\ req'[p].pc = "done"
             /\ req'[p].v \in DOMAIN docs
             /\ \A v \in DOMAIN docs : v \in DOMAIN docs' /\ docs'[v] = docs[v]
             /\ DOMAIN docs' = DOMAIN docs
             /\ entities' = entities
             /\ get_mitre_version' = get_mitre_version
             /\ gnodes' = gnodes /\ gedges' = gedges]_vars

\* a create has been rejected on a store whose cache and graph hold the
\* entities of another version than the one it named
C28_Witness ==
    /\ req[1].pc = "done" /\ req[1].op = "create"
    /\ req[1].result = "DuplicateVersion"
    /\ get_mitre_version # req[1].v
    /\ DOMAIN entities # {} /\ DOMAIN gnodes # {}
    /\ Len(docs[req[1].v].objects) # Len(req[1].content.objects)

(***************************************************************************)
(* C29.  A createBundle(v, B) that fails at its cache or pointer step      *)
(* leaves v stranded: v is listed by listVersions and readable by          *)
(* getContent(v), getCurrentVersion does not return v, and every later     *)
(* createBundle for v is rejected with DuplicateVersion (only              *)
(* replaceBundle(v, ..) can make v current).                               *)
(***************************************************************************)
\* the create of p fails in this step, after its document step
CreateFailsAfterDocument(p) ==
    /\ req[p].op = "create"
    /\ req[p].pc \in {"delete", "embed", "insert", "pointer"}
    /\ req'[p].pc = "done"
    /\ req'[p].result # "ok"

\* v has a document, is not the current version and no write for v is
\* under way
Stranded(v) ==
    /\ v \in DOMAIN docs
    /\ get_mitre_version # v
    /\ \A p \in Procs : req[p].v = v => req[p].pc \in {"idle", "done"}

C29_StrandedVersion ==
    [][/\ \A p \in Procs :
            CreateFailsAfterDocument(p) =>
                /\ Stranded(req[p].v)'
                /\ \A l \in list_mitre_versions' :
                       \E i \in DOMAIN l : l[i].x_mitre_version = req[p].v
                /\ get_mitre_content_by_version(req[p].v)'.found
                /\ get_mitre_content_by_version(req[p].v)'.content.objects
                      = req[p].content.objects
       /\ \A v \in Versions :
            Stranded(v) =>
                /\ v \in DOMAIN docs'
                /\ \A p \in Procs :
                       (Free(p) /\ req'[p].op = "create" /\ req'[p].v = v)
                          => /\ req'[p].pc = "done"
                             /\ req'[p].result = IF mongoUp THEN "DuplicateVersion"
                                                            ELSE "MitreDBError"
                /\ get_mitre_version' # v
                /\ ~Stranded(v)'
                      => \E p \in Procs : /\ req'[p].op = "replace" /\ req'[p].v = v
                                          /\ req'[p].pc = "delete"
      ]_vars

\* a create has just failed at its embedding: its version is listed and
\* readable, and another version is current
C29_Witness ==
    /\ req[1].pc = "done" /\ req[1].op = "create" /\ req[1].result = "EmbeddingError"
    /\ Stranded(req[1].v)
    /\ get_mitre_version # None
    /\ get_mitre_content_by_version(req[1].v).found
    /\ \A l \in list_mitre_versions : \E i \in DOMAIN l : l[i].x_mitre_version = req[1].v
    /\ CacheEntities # CurrentEntities

(***************************************************************************)
(* C30.  A write that fails at the bundle-document step or at the          *)
(* entities-cache step (store error or embedding error) leaves the current *)
(* pointer and the graph unchanged: the pointer update and the graph       *)
(* rebuild are reached only after every earlier step of the same write has *)
(* succeeded.                                                              *)
(***************************************************************************)
\* p takes, in this step, the bundle-document step or a step on the entities
\* cache of its write
EarlyWriteStep(p) ==
    /\ req[p].pc \in {"idle", "delete", "embed", "insert"}
    /\ req'[p] # req[p]
    /\ req'[p].op \in {"create", "replace"}

\* the write of p fails in this step, at its bundle-document step or at a
\* step on the entities cache
FailsEarly(p) ==
    /\ EarlyWriteStep(p)
    /\ req'[p].pc = "done"
    /\ req'[p].result \in {"MitreDBError", "EmbeddingError"}

C30_FailedWriteFrame ==
    [][/\ \A p \in Procs :
            /\ EarlyWriteStep(p)
                  => current' = current /\ gnodes' = gnodes /\ gedges' = gedges
            /\ FailsEarly(p) => get_mitre_version' = get_mitre_version
            /\ (req'[p] # req[p] /\ req'[p].pc = "pointer")
                  => req[p].pc = "insert"
            /\ (req'[p] # req[p] /\ req'[p].pc = "graph") => req[p].pc = "pointer"
       /\ current' # current => \E p \in Procs : req[p].pc = "pointer"
       /\ (gnodes' # gnodes \/ gedges' # gedges)
            => \E p \in Procs : req[p].pc \in {"graph", "nodes", "rels"}
      ]_vars

\* a write of another version than the current one has failed at insert_many
\* with the cache cleared; the pointer and the graph are those of the write
\* before it
C30_Witness ==
    /\ req[1].pc = "done" /\ req[1].op \in {"create", "replace"}
    /\ req[1].result = "MitreDBError"
    /\ DOMAIN entities = {}
    /\ get_mitre_version \notin {None, req[1].v}
    /\ DOMAIN gnodes # {}
    /\ docs[req[1].v].objects = req[1].content.objects

(***************************************************************************)
(* C31.  createBundle raises DuplicateVersion only when a bundle document  *)
(* for the requested version already exists; every other failure of a      *)
(* create, including a uniqueness failure of the cache insert caused by    *)
(* two entities of the bundle sharing one id, surfaces as the generic      *)
(* store error and never as DuplicateVersion.                              *)
(***************************************************************************)
\* the create of p ends in this step with a failure
CreateEndsInFailure(p) ==
    /\ req'[p] # req[p]
    /\ req'[p].op = "create"
    /\ req'[p].pc = "done"
    /\ req'[p].result # "ok"

StoredFirst == MitreBundle("bundle--1", "2.1", <<GroupB, TechA, RelBA>>)

\* the bundle stored under version "2.0" before the write, when there is one
StoredBefore == MitreBundle(None, "2.0", <<TechA2, RelBA, RelToRel>>)

\* the document of version "1.0" before the write
StoredFirstDocument ==
    BundleDocument("1.0", StoredFirst, [MitreMetadata("1.0", StoredFirst)
                                           EXCEPT !.last_modified = isoformat(0)])

InitReplace ==
    /\ now = 0
    /\ \E both \in BOOLEAN :
          docs = IF both
                 THEN replace_one(replace_one(EmptyCollection, "2.0",
                                      BundleDocument("2.0", StoredBefore,
                                                     MitreMetadata("2.0", StoredBefore))),
                                  "1.0", StoredFirstDocument)
                 ELSE replace_one(EmptyCollection, "1.0", StoredFirstDocument)
    /\ entities = insert_many(EmptyCollection, _entity_docs_with_embeddings(StoredFirst)).coll
    /\ current = "1.0"
    /\ mongoUp = TRUE
    /\ _client = "client"
    /\ _db = "db"
    /\ driver = TRUE
    /\ gnodes = ProjectedNodes(StoredFirst)
    /\ gedges = ProjectedEdges(StoredFirst)
    /\ synced = [nodes |-> gnodes, edges |-> gedges]
    /\ req = [p \in Procs |-> IdleReq]
    /\ resp = NoResp
    /\ search = IdleSearch
    /\ chat = IdleChat
    /\ svg = NoResp

NextReplace ==
    \/ \E v \in Versions, content \in WriteBundles : InsertDocument(1, v, content)
    \/ \E v \in Versions, content \in WriteBundles : ReplaceDocument(1, v, content)
    \/ DeleteEntities(1)
    \/ EmbedEntities(1)
    \/ EmbeddingFails(1)
    \/ InsertEntities(1)
    \/ SetCurrent(1)
    \/ SyncAfterWrite(1)
    \/ CreateNode(1)
    \/ CreateRelationship(1)
    \/ CreateFails(1)
    \/ MongoGoesDown
    \/ MongoComesUp

SpecReplace == InitReplace /\ [][NextReplace]_vars

(***************************************************************************)
(* C32.  A createBundle or replaceBundle of version v leaves the stored    *)
(* bundle document of every other version unchanged, and no operation ever *)
(* removes a stored bundle document: the set of stored versions only       *)
(* grows, and the document under v changes only through a successful       *)
(* replaceBundle(v, ..).                                                   *)
(***************************************************************************)
\* as claimed, for the one write of SpecReplace: a replace that has failed
\* has not changed the document of its version
C32_Original ==
    \A p \in Procs :
        (/\ req[p].pc = "done" /\ req[p].op = "replace" /\ req[p].result # "ok"
         /\ req[p].v = "1.0")
            => docs["1.0"] = StoredFirstDocument

\* p takes the document step of a write of version v in this step, and the
\* store takes the document
DocumentStep(p, v) ==
    /\ Free(p)
    /\ req'[p].op \in {"create", "replace"}
    /\ req'[p].v = v
    /\ req'[p].pc = "delete"

\* amended: the documents stay, the document of a version changes only in
\* the document step of a replace of that version (whether or not the
\* replace succeeds afterwards), and a version gets its first document only
\* in the document step of a write of that version
C32_DocumentsFrame ==
    [][/\ DOMAIN docs \subseteq DOMAIN docs'
       /\ \A v \in DOMAIN docs :
             docs'[v] # docs[v]
                => \E p \in Procs :
                      /\ DocumentStep(p, v) /\ req'[p].op = "replace"
                      /\ docs'[v] = BundleDocument(v, req'[p].content,
                                                   MitreMetadata(v, req'[p].content))
       /\ \A v \in DOMAIN docs' \ DOMAIN docs :
             \E p \in Procs :
                /\ DocumentStep(p, v)
                /\ docs'[v] = BundleDocument(v, req'[p].content,
                                             MitreMetadata(v, req'[p].content))
       /\ \A p \in Procs, v \in Versions :
             (req'[p] # req[p] /\ req'[p].v = v)
                => \A w \in DOMAIN docs \ {v} : docs'[w] = docs[w]
      ]_vars

\* a replace of version "1.0" has put another bundle under the version, beside
\* the unchanged document of version "2.0", and has then failed at the
\* embedding call
C32_Witness ==
    /\ req[1].pc = "done" /\ req[1].op = "replace" /\ req[1].result = "EmbeddingError"
    /\ req[1].v = "1.0"
    /\ docs["1.0"] # StoredFirstDocument
    /\ docs["1.0"].objects = [i \in DOMAIN req[1].content.objects |->
                                 model_dump(req[1].content.objects[i])]
    /\ "2.0" \in DOMAIN docs
    /\ docs["2.0"].bundle_id = StoredBefore.id

(***************************************************************************)
(* SpecFrame: one write on the empty store, the stores answering, and      *)
(* between its steps the read operations: the graph queries, the search    *)
(* and the chat with its retrieval.                                        *)
(***************************************************************************)
\* the query and the last user message of the reads
FrameQueries == {"t1"}

\* the entity the graph is asked for
FrameIds == {"a"}

NextFrame ==
    \/ InsertDocument(1, "1.0", StoredFirst)
    \/ ReplaceDocument(1, "1.0", StoredFirst)
    \/ WriteStep(1)
    \/ \E stix_id \in FrameIds : GetAdjacent(stix_id)
    \/ \E stix_id \in FrameIds : GetSvg(stix_id)
    \/ \E q \in FrameQueries : SearchEntities(q, 1)
    \/ \E embedding \in BOOLEAN : SearchEmbed(embedding)
    \/ \E text_docs \in SeqsUpTo(SearchHits, 1) : SearchText(text_docs)
    \/ \E vector_docs \in search_entities_by_embedding(search.top_k) : SearchVector(vector_docs)
    \/ \E utterance \in FrameQueries : ChatRequest(utterance)
    \/ \E embedding \in BOOLEAN : RagEmbed(embedding)
    \/ \E found \in search_entities_by_embedding(RAG_TOP_K) : RagVectorSearch(found)
    \/ LlmReply
    \/ \E stix_id \in FrameIds : GetAdjacentFails(stix_id)
    \/ SearchCallFails
    \/ RagCallFails
    \/ LlmFails

SpecFrame == Init /\ [][NextFrame]_vars

(***************************************************************************)
(* C33.  Every read operation (getCurrentVersion, getContent,              *)
(* listVersions, getAdjacent, getEdgesTouching, search, ragContext) leaves *)
(* the stored bundles, the current pointer, the latest-entities cache and  *)
(* the graph unchanged; these are modified only by createBundle and        *)
(* replaceBundle.                                                          *)
(***************************************************************************)
\* the stored bundles, the pointer, the cache and the graph
Stores == <<docs, current, entities, gnodes, gedges>>

\* a read operation is answered, or takes one of its steps, in this step
ReadStep == resp' # resp \/ svg' # svg \/ search' # search \/ chat' # chat

\* p takes a step of its createBundle or replaceBundle in this step
WriteTakesStep(p) ==
    /\ req'[p] # req[p]
    /\ req'[p].op \in {"create", "replace"}
    /\ req[p].pc # "done"

C33_ReadsFrame ==
    [][/\ ReadStep => Stores' = Stores
       /\ Stores' # Stores => \E p \in Procs : WriteTakesStep(p)
       /\ ReadStep =>
             /\ get_mitre_version' = get_mitre_version
             /\ list_mitre_versions' = list_mitre_versions
             /\ \A v \in Versions :
                   get_mitre_content_by_version(v)' = get_mitre_content_by_version(v)
      ]_vars

\* after a write that filled the stores, each of the reads has been answered
\* from them: the adjacency and the drawing of a node, a search and a chat with
\* a retrieved context
C33_Witness ==
    /\ req[1].pc = "done" /\ req[1].result = "ok" /\ req[1].sync = "synced"
    /\ current = "1.0" /\ DOMAIN entities # {} /\ DOMAIN gnodes # {}
    /\ resp.status = 200 /\ svg.status = 200
    /\ search.pc = "done" /\ search.status = 200 /\ Len(search.vector_docs) # 0
    /\ chat.pc = "done" /\ chat.status = 200 /\ Len(chat.rag_context) # 0

(***************************************************************************)
(* SpecCache: writes one after the other, each able to fail at the         *)
(* embedding call, of bundles with blank names and descriptions and with   *)
(* relationships that carry a text.                                        *)
(***************************************************************************)
CacheBundles ==
    { MitreBundle("bundle--10", "2.1", <<TechA2, Blank, RelDang>>),
      MitreBundle("bundle--11", "2.1", <<GroupB, BlankDesc, RelBA>>),
      MitreBundle("bundle--3", "2.1", <<TechA, TechA2>>),
      MitreBundle("bundle--0", "2.1", <<>>) }

NextCache ==
    \/ \E v \in Versions, content \in CacheBundles : InsertDocument(1, v, content)
    \/ \E v \in Versions, content \in CacheBundles : ReplaceDocument(1, v, content)
    \/ Step(1)

SpecCache == Init /\ [][NextCache]_vars

(***************************************************************************)
(* C34.  After a successful write of bundle B with pairwise distinct       *)
(* entity ids, the latest-entities cache holds exactly one document per    *)
(* entity of B, keyed by the entity id, and a document carries an          *)
(* embedding if and only if the entity's name or description is non-empty  *)
(* after trimming whitespace (relationship entities included); no document *)
(* of the previously cached bundle remains.                                *)
(***************************************************************************)
\* the name or the description of obj is non-empty after trimming
HasText(obj) == strip(OrEmpty(obj.name)) # "" \/ strip(OrEmpty(obj.description)) # ""

\* the ids of the entities of a bundle are pairwise distinct
DistinctIds(content) ==
    \A i, j \in DOMAIN content.objects :
        i # j => content.objects[i].id # content.objects[j].id

C34_CacheHoldsBundle ==
    \A p \in Procs :
        (WriteSucceeded(p) /\ DistinctIds(req[p].content)) =>
            LET objs == req[p].content.objects
            IN  /\ DOMAIN entities = {objs[i].id : i \in DOMAIN objs}
                /\ Cardinality(DOMAIN entities) = Len(objs)
                /\ \A i \in DOMAIN objs :
                      LET d == entities[objs[i].id]
                      IN  /\ d._id = objs[i].id
                          /\ model_validate(d.fields) = objs[i]
                          /\ d.embedding # <<>> <=> HasText(objs[i])

\* a write has succeeded on a cache that held another bundle: the cache holds
\* a relationship with an embedding and an entity of blank name without one
C34_Witness ==
    /\ WriteSucceeded(1)
    /\ \E w \in DOMAIN docs : w # req[1].v /\ docs[w].objects # <<>>
                                /\ docs[w].objects # docs[req[1].v].objects
    /\ \E k \in DOMAIN entities : /\ entities[k].fields["type"] = "relationship"
                                   /\ entities[k].embedding # <<>>
    /\ \E k \in DOMAIN entities : /\ entities[k].fields["name"] = " "
                                   /\ entities[k].embedding = <<>>

(***************************************************************************)
(* SpecVector: calls of search_entities_by_embedding with the vector of a  *)
(* query text, between the steps of a write that fills the cache.          *)
(***************************************************************************)
\* embed_text(text): the empty list for a blank text, without a call of the
\* provider, else the vector the provider returns
embed_text(text) ==
    IF strip(OrEmpty(text)) = "" THEN <<>> ELSE EmbeddingOf(<<strip(OrEmpty(text))>>)

\* the values of top_k of the calls
TopKs == (0 - 1)..MaxTopK

\* search_entities_by_embedding(await embed_text(text), top_k) is called and
\* returns
VectorSearch(text, top_k, ranking) ==
    /\ search.pc \in {"idle", "done"}
    /\ LET out == search_entities_by_embedding_on(embed_text(text), top_k, ranking)
       IN  search' = [IdleSearch EXCEPT
                         !.pc = "done", !.q = text, !.top_k = top_k,
                         !.calls = IF out.queried THEN {"aggregate"} ELSE {},
                         !.vector_docs = out.docs]
    /\ UNCHANGED <<docs, entities, current, mongoUp, _client, _db, driver, gnodes, gedges, synced, req,
                   resp, chat, svg, now>>

NextVector ==
    \/ \E content \in RagBundles : InsertDocument(1, "1.0", content)
    \/ \E content \in RagBundles : ReplaceDocument(1, "1.0", content)
    \/ WriteStep(1)
    \/ \E text \in Queries, top_k \in TopKs, ranking \in Rankings :
          VectorSearch(text, top_k, ranking)

SpecVector == Init /\ [][NextVector]_vars

(***************************************************************************)
(* C35.  Vector search returns at most top_k hits and never a hit whose    *)
(* type is "relationship", for every query vector and cache content; and   *)
(* it returns the empty list without querying the store when the query     *)
(* vector is empty or top_k <= 0 (so a blank query skips vector search).   *)
(***************************************************************************)
C35_VectorSearchBounds ==
    search.pc = "done" =>
        /\ Len(search.vector_docs) <= search.top_k \/ search.vector_docs = <<>>
        /\ \A i \in DOMAIN search.vector_docs : search.vector_docs[i].type # "relationship"
        /\ (embed_text(search.q) = <<>> \/ search.top_k <= 0)
              => search.vector_docs = <<>> /\ search.calls = {}
        /\ strip(search.q) = "" => embed_text(search.q) = <<>>
        /\ (embed_text(search.q) # <<>> /\ search.top_k > 0) => search.calls = {"aggregate"}

\* a search with top_k = 1 has returned one hit from a cache that holds two
\* entities and a relationship with embeddings
C35_Witness ==
    /\ search.pc = "done" /\ search.top_k = 1 /\ Len(search.vector_docs) = 1
    /\ \E k \in Indexed : entities[k].fields["type"] = "relationship"
    /\ Cardinality(Indexed) = 3

(***************************************************************************)
(* SpecOverfetch: vector searches on a cache that holds two entities and   *)
(* up to MaxRels relationships, all with embeddings; the store ranks the   *)
(* relationships nearest, or the entities.                                 *)
(***************************************************************************)
\* the i-th relationship with a description
RelText(i) ==
    MitreObject("rel-" \o ToString(i), "relationship", None, "d", "uses", "b", "a")

\* a bundle of two entities and n relationships with a description
BigBundle(n) ==
    MitreBundle("bundle--big", "2.1", <<TechA2, GroupB>> \o [i \in 1..n |-> RelText(i)])

\* the stores after one create of version "1.0" on a backend without Neo4j
InitOverfetch ==
    /\ now = 0
    /\ \E n \in 0..MaxRels :
          /\ docs = replace_one(EmptyCollection, "1.0",
                        BundleDocument("1.0", BigBundle(n), MitreMetadata("1.0", BigBundle(n))))
          /\ entities = insert_many(EmptyCollection,
                                    _entity_docs_with_embeddings(BigBundle(n))).coll
    /\ current = "1.0"
    /\ mongoUp = TRUE
    /\ _client = "client"
    /\ _db = "db"
    /\ driver = FALSE
    /\ gnodes = EmptyCollection
    /\ gedges = EmptyBag
    /\ synced = [nodes |-> EmptyCollection, edges |-> EmptyBag]
    /\ req = [p \in Procs |-> IdleReq]
    /\ resp = NoResp
    /\ search = IdleSearch
    /\ chat = IdleChat
    /\ svg = NoResp

\* the documents of the vector index that are relationships, and those that
\* are not
IndexedRelationships == {k \in Indexed : entities[k].fields["type"] = "relationship"}
IndexedEntities == Indexed \ IndexedRelationships

\* the rankings of SpecOverfetch: the relationships in the order of the
\* bundle, before or after the two entities
OverfetchRankings ==
    LET rels == [i \in 1..Cardinality(IndexedRelationships) |-> RelText(i).id]
    IN  {rels \o <<"a", "b">>, rels \o <<"b", "a">>, <<"a", "b">> \o rels}

NextOverfetch ==
    \E top_k \in 1..MaxTopK, ranking \in OverfetchRankings : VectorSearch("t1", top_k, ranking)

SpecOverfetch == InitOverfetch /\ [][NextOverfetch]_vars

(***************************************************************************)
(* C36.  As claimed: whenever the latest-entities cache holds at least     *)
(* top_k non-relationship entities with an embedding, vector search        *)
(* returns exactly top_k hits, all of them non-relationship entities of    *)
(* the cache, however many relationship entities with embeddings rank      *)
(* above them.                                                             *)
(***************************************************************************)
C36_Original ==
    (/\ search.pc = "done" /\ search.calls = {"aggregate"}
     /\ Cardinality(IndexedEntities) >= search.top_k)
        => /\ Len(search.vector_docs) = search.top_k
           /\ \A i \in DOMAIN search.vector_docs :
                 search.vector_docs[i]._id \in IndexedEntities
           /\ \A i, j \in DOMAIN search.vector_docs :
                 i # j => search.vector_docs[i]._id # search.vector_docs[j]._id

\* fifty relationships rank above the two entities and a search with
\* top_k = 1 has returned nothing
C36_Witness ==
    /\ search.pc = "done" /\ search.calls = {"aggregate"}
    /\ search.top_k = 1
    /\ Cardinality(IndexedEntities) = 2
    /\ Cardinality(IndexedRelationships) = 50
    /\ search.vector_docs = <<>>

(***************************************************************************)
(* store_mitre_bundle run to its end on the empty graph, as one function.  *)
(***************************************************************************)
RECURSIVE NodeLoop(_, _)
\* for obj in nodes: session.execute_write(_create_node, label, props)
NodeLoop(objs, nodes) ==
    IF objs = <<>> THEN nodes
    ELSE NodeLoop(Tail(objs),
                  _create_node(nodes, _stix_type_to_label(Head(objs).type),
                               _node_properties(Head(objs))))

RECURSIVE RelationshipLoop(_, _, _, _)
\* for rel in relationships: continue, or
\* session.execute_write(_create_relationship, ...)
RelationshipLoop(content, rels, nodes, edges) ==
    IF rels = <<>> THEN edges
    ELSE RelationshipLoop(content, Tail(rels), nodes,
            IF SkipsRelationship(content, Head(rels)) THEN edges
            ELSE _create_relationship(nodes, edges, Head(rels).source_ref,
                     Head(rels).target_ref,
                     _relationship_type_to_neo4j(Head(rels).relationship_type),
                     Head(rels).id))

\* the graph after store_mitre_bundle(content): the clearing, the node loop,
\* then the relationship loop
store_mitre_bundle(content) ==
    LET nodes == NodeLoop(NodeObjects(content), EmptyCollection)
    IN  [nodes |-> nodes,
         edges |-> RelationshipLoop(content, RelObjects(content), nodes, EmptyBag)]

\* the bundles that list the objects of content in another order
Reordered(content) ==
    LET n == Len(content.objects)
        perms == {f \in [1..n -> 1..n] : \A i, j \in 1..n : i # j => f[i] # f[j]}
    IN  {[content EXCEPT !.objects = [i \in 1..n |-> content.objects[f[i]]]] : f \in perms}

DistinctNodeIds(content) ==
    \A i, j \in DOMAIN NodeObjects(content) :
        i # j => NodeObjects(content)[i].id # NodeObjects(content)[j].id

NotInitialized ==
    [type |-> "RuntimeError", message |-> "DB not initialized. Call init_db() first."]

\* no exception is raised
NoError == [type |-> "none", message |-> ""]

\* the exception that _client.close() raises
CloseFailed == [type |-> "Exception", message |-> ""]

\* MitreDBError(...)
StoreDown == [type |-> "MitreDBError", message |-> "Failed"]

\* str.lower() on the messages of the errors
lower(s) ==
    CASE s = "DB not initialized. Call init_db() first."
             -> "db not initialized. call init_db() first."
      [] s = "Failed" -> "failed"
      [] OTHER -> s

\* "not initialized" in s
MentionsNotInitialized(s) == s \in {"db not initialized. call init_db() first."}

\* _get_db(): the handle, or the RuntimeError when there is none
_get_db ==
    IF _db = None THEN [raises |-> NotInitialized] ELSE [raises |-> NoError, db |-> _db]

\* _handle_db_error(exc): the HTTPException raised for exc
_handle_db_error(exc) ==
    IF exc.type = "MitreDBError"
    THEN [status |-> 503, detail |-> "Database unavailable"]
    ELSE IF exc.type = "RuntimeError" /\ MentionsNotInitialized(lower(exc.message))
         THEN [status |-> 503, detail |-> "Database not initialized"]
         ELSE [status |-> 500, detail |-> "An unexpected error occurred"]

\* variant: close_db clears the client and keeps the database handle
close_db_keeps_db ==
    /\ \A p \in Procs : req[p].pc \in {"idle", "done"}
    /\ _client' = None
    /\ _db' = _db
    /\ resp' = [call |-> "close_db", raises |-> NoError, status |-> 0]
    /\ UNCHANGED <<docs, entities, current, mongoUp, driver, gnodes, gedges, synced, req,
                   svcVars>>

\* init_db(): the client, the ping, the handle and the indexes; a PyMongoError
\* on the way clears both handles and is raised as MitreDBError
init_db ==
    /\ \A p \in Procs : req[p].pc \in {"idle", "done"}
    /\ IF mongoUp
       THEN /\ _client' = "client"
            /\ _db' = "db"
            /\ resp' = [call |-> "init_db", raises |-> NoError, status |-> 0]
       ELSE /\ _client' = None
            /\ _db' = None
            /\ resp' = [call |-> "init_db", raises |-> StoreDown, status |-> 0]
    /\ UNCHANGED <<docs, entities, current, mongoUp, driver, gnodes, gedges, synced, req,
                   svcVars>>

\* close_db(): the client is closed when there is one; both handles are
\* cleared, also when close() raises
close_db ==
    /\ \A p \in Procs : req[p].pc \in {"idle", "done"}
    /\ _client' = None
    /\ _db' = None
    /\ \E raises \in IF _client = None THEN {NoError} ELSE {NoError, CloseFailed} :
          resp' = [call |-> "close_db", raises |-> raises, status |-> 0]
    /\ UNCHANGED <<docs, entities, current, mongoUp, driver, gnodes, gedges, synced, req,
                   svcVars>>

\* the response of a read endpoint of /api/mitre whose store call answers ok
\* when the handle is there and the store answers
ReadEndpoint(call, ok) ==
    /\ resp' = [call |-> call] @@
                (IF _get_db.raises # NoError THEN _handle_db_error(_get_db.raises)
                 ELSE IF ~mongoUp THEN _handle_db_error(StoreDown)
                 ELSE ok)
    /\ UNCHANGED <<docs, entities, current, mongoUp, _client, _db, driver, gnodes, gedges,
                   synced, req, svcVars>>

\* GET /api/mitre/version
GetMitreVersionEndpoint == ReadEndpoint("get_mitre_version", get_mitre_version_endpoint)

\* GET /api/mitre/list
ListMitreVersionsEndpoint == ReadEndpoint("list_mitre_versions", [status |-> 200])

\* GET /api/mitre/{x_mitre_version}
DownloadMitreVersionEndpoint(x_mitre_version) ==
    ReadEndpoint("get_mitre_content_by_version",
                 IF get_mitre_content_by_version(x_mitre_version) = NotFound
                 THEN [status |-> 404] ELSE [status |-> 200])

\* a write is called: db = _get_db() raises before the first store operation,
\* or the write starts
CallWrite(p, op, v, content) ==
    IF _get_db.raises # NoError
    THEN /\ Free(p)
         /\ Return(p, NewReq(op, v, content), "NotInitialized")
         /\ UNCHANGED <<docs, entities, current, mongoUp, _client, _db, driver, gnodes,
                        gedges, synced, resp, svcVars>>
    ELSE IF op = "create" THEN InsertDocument(p, v, content)
         ELSE ReplaceDocument(p, v, content)

\* search_entities_by_embedding(await embed_text(text), top_k) is called: the
\* early return, the RuntimeError of _get_db(), the MitreDBError, or the hits
CallVectorSearch(text, top_k, ranking) ==
    IF embed_text(text) = <<>> \/ top_k <= 0 \/ (_get_db.raises = NoError /\ mongoUp)
    THEN VectorSearch(text, top_k, ranking)
    ELSE /\ search.pc \in {"idle", "done"}
         /\ search' = [IdleSearch EXCEPT !.pc = "done", !.q = text, !.top_k = top_k,
                                         !.calls = {"_get_db"}] @@
                       [raises |-> IF _get_db.raises # NoError THEN _get_db.raises
                                   ELSE StoreDown]
         /\ UNCHANGED <<docs, entities, current, mongoUp, _client, _db, driver, gnodes,
                        gedges, synced, req, resp, chat, svg, now>>

\* the module is imported with both handles None; the store holds what
\* earlier runs of the backend have written
InitLifecycle ==
    /\ now = 0
    /\ \/ /\ docs = EmptyCollection
          /\ entities = EmptyCollection
          /\ current = None
       \/ /\ docs = replace_one(EmptyCollection, "1.0", StoredFirstDocument)
          /\ entities = insert_many(EmptyCollection,
                                    _entity_docs_with_embeddings(StoredFirst)).coll
          /\ current = "1.0"
    /\ mongoUp \in BOOLEAN
    /\ _client = None
    /\ _db = None
    /\ driver = TRUE
    /\ gnodes = EmptyCollection
    /\ gedges = EmptyBag
    /\ synced = [nodes |-> EmptyCollection, edges |-> EmptyBag]
    /\ req = [p \in Procs |-> IdleReq]
    /\ resp = NoResp
    /\ search = IdleSearch
    /\ chat = IdleChat
    /\ svg = NoResp

LifecycleBundles == {MitreBundle("bundle--1", "2.1", <<GroupB, TechA, RelBA>>)}

LifecycleQueries == {"t1", " "}
LifecycleTopKs == {0, 1}

NextLifecycle ==
    \/ init_db
    \/ close_db
    \/ GetMitreVersionEndpoint
    \/ ListMitreVersionsEndpoint
    \/ \E v \in Versions : DownloadMitreVersionEndpoint(v)
    \/ \E op \in {"create", "replace"}, v \in Versions, content \in LifecycleBundles :
          CallWrite(1, op, v, content)
    \/ Step(1)
    \/ \E text \in LifecycleQueries, top_k \in LifecycleTopKs, ranking \in Rankings :
          CallVectorSearch(text, top_k, ranking)
    \/ MongoGoesDown
    \/ MongoComesUp

SpecLifecycle == InitLifecycle /\ [][NextLifecycle]_vars

(***************************************************************************)
(* C38.  Every document-store operation invoked before init_db has         *)
(* succeeded, after init_db has failed, or after close_db fails with a     *)
(* "not initialized" error (503 at the API) and performs no store          *)
(* mutation; init_db failure and close_db both leave the connection        *)
(* handles cleared.                                                        *)
(***************************************************************************)
\* the step is a call of a read endpoint, of a write or of a vector search
\* that reaches the store
ReadCalled == resp' # resp /\ resp'.call \notin {"init_db", "close_db"}
WriteCalled(p) == Free(p) /\ req'[p].pc # "idle"
VectorSearchCalled ==
    search' # search /\ embed_text(search'.q) # <<>> /\ search'.top_k > 0

C38_NotInitialized ==
    /\ [][/\ _db = None /\ ReadCalled =>
                /\ resp'.status = 503
                /\ resp'.detail = "Database not initialized"
                /\ UNCHANGED <<mongoVars, _client, _db>>
          /\ \A p \in Procs :
                _db = None /\ WriteCalled(p) =>
                    /\ req'[p].pc = "done"
                    /\ req'[p].result = "NotInitialized"
                    /\ put_mitre(req'[p].result) = 503
                    /\ put_mitre_by_version(req'[p].result) = 503
                    /\ UNCHANGED <<mongoVars, graphVars, _client, _db>>
          /\ _db = None /\ VectorSearchCalled =>
                /\ search'.calls = {"_get_db"}
                /\ search'.raises = NotInitialized
                /\ search'.vector_docs = <<>>
                /\ UNCHANGED <<mongoVars, _client, _db>>
          /\ _db = None => UNCHANGED mongoVars
          /\ resp' # resp /\ resp'.call = "init_db" =>
                IF resp'.raises = NoError
                THEN _client' # None /\ _db' # None
                ELSE _client' = None /\ _db' = None
          /\ resp' # resp /\ resp'.call = "close_db" =>
                _client' = None /\ _db' = None
          /\ _db' # _db =>
                resp' # resp /\ resp'.call \in {"init_db", "close_db"}]_vars
    /\ [](_db = None <=> _client = None)

\* after a write has stored a version and close_db has run, a create is
\* called: it ends with the error and the store keeps what it held
C38_Witness ==
    /\ _db = None
    /\ _client = None
    /\ req[1].op = "create"
    /\ req[1].result = "NotInitialized"
    /\ req[1].v \notin DOMAIN docs
    /\ DOMAIN docs # {}
    /\ current # None
    /\ "call" \in DOMAIN resp
    /\ resp.call = "close_db"

(***************************************************************************)
(* C39.  A self-referencing relationship (source_ref = target_ref = A, A a *)
(* non-relationship entity of the bundle) is materialized as an edge by    *)
(* rebuildGraph and is returned by getEdgesTouching(A), yet is never       *)
(* reported in the adjacency list of getAdjacent(A); getAdjacent and       *)
(* getEdgesTouching agree on the set of relationship ids touching A for    *)
(* every bundle without self-referencing relationships.                    *)
(***************************************************************************)
\* the relationships of a bundle from an entity of the bundle to itself
SelfReferencing(content) ==
    {rel \in Range(RelObjects(content)) :
        /\ rel.source_ref = rel.target_ref
        /\ rel.source_ref \in NodeIds(content)
        /\ Truthy(rel.relationship_type)}

\* the relationship ids in the records of get_uses_into_records(stix_id)
TouchingIds(stix_id) ==
    {x.r.stix_id : x \in BagToSet(get_uses_into_records(stix_id).records)}

\* the relationship ids in the adjacency list of an answer of get_adjacent
ReportedIds(result) ==
    IF result.found THEN {x.relationship.stix_id : x \in BagToSet(result.adjacent)}
    ELSE {}

\* the ids of the edges of the graph from a node with stix_id to one with it
LoopIds(stix_id) ==
    {e.stix_id : e \in {e \in BagToSet(gedges) :
                            e.src[2] = stix_id /\ e.tgt[2] = stix_id}}

=============================================================================
